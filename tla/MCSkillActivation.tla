-------------------------- MODULE MCSkillActivation --------------------------
(***************************************************************************)
(* Finite instances of SkillActivation for TLC: two roots with two skill   *)
(* directories each, and two runs.                                         *)
(***************************************************************************)
EXTENDS SkillActivation, TLC

CONSTANTS r1, r2   (* runs *)

TwoRuns   == {r1, r2}
MCRoots   == <<"project", "user">>
MCSubDirs == <<"deploy", "review">>
MCNames   == {"deploy", "review", "ghost"}   (* ghost is never indexed *)

Good(name) ==
  [frontmatter |-> "ok", name |-> name, description |-> "ok", license |-> "ok",
   compatibility |-> "ok", metadata |-> "ok", tools |-> "ok"]
Nameless == [Good("review") EXCEPT !.description = "absent"]
Unframed == [Good("review") EXCEPT !.frontmatter = "unframed"]

MCHeaders == {Good("review"), Unframed}

File(dir, header) == [kind |-> "skill", header |-> header, body |-> <<dir, 0>>]
Disk(nth) == [d \in Dirs |-> nth[d[1]][d[2]]]
Two(root, deploy, review) ==
  [deploy |-> IF deploy.frontmatter = "no file" THEN [kind |-> "missing"] ELSE File(<<root, "deploy">>, deploy),
   review |-> File(<<root, "review">>, review)]
NoFile == [Good("") EXCEPT !.frontmatter = "no file"]

(* Both roots have both skills; or the first root's are not valid skills. *)
MCDisks ==
  {Disk([project |-> Two("project", Good("deploy"), Good("review")),
         user    |-> Two("user", Good("deploy"), Good("review"))]),
   Disk([project |-> Two("project", NoFile, Nameless),
         user    |-> Two("user", Good("review"), Good("review"))])}

AnyRun == Permutations(TwoRuns)
=============================================================================
