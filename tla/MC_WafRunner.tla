---------------------------- MODULE MC_WafRunner ----------------------------
(* Builds of four tasks and two threads for TLC.                            *)
EXTENDS WafRunner

CONSTANTS t1, t2, t3, t4

Type(name, ext_in, ext_out, before, after) ==
  [name |-> name, ext_in |-> ext_in, ext_out |-> ext_out, before |-> before, after |-> after]

\* Compiling comes before linking by the extensions, generating before compiling by name.
CC == Type("cc", {".c"}, {".o"}, {}, {})
Link == Type("link", {".o"}, {}, {}, {})
Gen == Type("gen", {}, {}, {"cc"}, {})
Doc == Type("doc", {}, {}, {}, {"link"})
Knot == Type("knot", {}, {}, {"tie"}, {})
Tie == Type("tie", {}, {}, {"twist"}, {})
Twist == Type("twist", {}, {}, {"knot"}, {})

None == [t \in Tasks |-> {}]
Any == [t \in Tasks |-> MAXJOBS]

Base(groups, type, algotype, keep) ==
  [groups |-> groups, type |-> type, run_after |-> {}, more |-> None, maxjobs |-> Any,
   algotype |-> algotype, keep |-> keep, marked |-> {}, fresh |-> {}, faulty |-> {},
   quits |-> {}]

Kinds(a, b, c, d) == [t \in Tasks |-> CASE t = t1 -> a [] t = t2 -> b [] t = t3 -> c [] t = t4 -> d]

Algos == {"NORMAL", "JOBCONTROL", "MAXPARALLEL"}

\* Two objects, a program and its document, any of them failing.
Compile(algo, keep) ==
  [Base(<<{t1, t2, t3, t4}>>, Kinds(CC, CC, Link, Doc), algo, keep) EXCEPT !.faulty = Tasks]

\* Tasks of one type that wait for one another, and a second group; some are up to date.
Chain(algo, keep) ==
  [Base(<<{t1, t2, t3}, {}, {t4}>>, Kinds(CC, CC, CC, CC), algo, keep) EXCEPT
     !.run_after = {<<t2, t1>>, <<t3, t1>>}, !.fresh = {t2}, !.marked = {t3}, !.faulty = {t1}]

\* A generator adds a task while its group runs.
Grow(algo, keep) ==
  [Base(<<{t1, t2}, {t3}>>, Kinds(Gen, CC, CC, CC), algo, keep) EXCEPT
     !.more = [None EXCEPT ![t1] = {t4}], !.faulty = {t2}]

\* The added task and the one of the second group limit the jobs.
GrowLimited(keep) ==
  [Grow("JOBCONTROL", keep) EXCEPT !.maxjobs = [Any EXCEPT ![t3] = 1, ![t4] = 1]]

\* Tasks that limit the jobs, with others that do not.
Limited(keep) ==
  [Base(<<{t1, t2, t3, t4}>>, Kinds(CC, CC, CC, CC), "JOBCONTROL", keep) EXCEPT
     !.maxjobs = [Any EXCEPT ![t1] = 1, ![t2] = 1], !.faulty = {t1, t3}]

\* Tasks of which one exits.
Quit(keep) ==
  [Base(<<{t1, t2}, {t3}>>, Kinds(CC, Link, CC, CC), "NORMAL", keep) EXCEPT !.quits = {t1}]

\* Types that wait for one another in a circle, and tasks that do.
Cycle(algo) == Base(<<{t1, t2, t3}>>, Kinds(Knot, Tie, Twist, CC), algo, FALSE)
Circle(algo) ==
  [Base(<<{t1, t2, t3}>>, Kinds(CC, CC, CC, CC), algo, FALSE) EXCEPT
     !.run_after = {<<t1, t2>>, <<t2, t1>>}]

MCBuilds ==
  {Compile(algo, keep) : algo \in Algos, keep \in BOOLEAN}
  \cup {Chain(algo, keep) : algo \in Algos, keep \in BOOLEAN}
  \cup {Grow(algo, keep) : algo \in Algos, keep \in BOOLEAN}
  \cup {GrowLimited(keep) : keep \in BOOLEAN}
  \cup {Limited(keep) : keep \in BOOLEAN}
  \cup {Quit(keep) : keep \in BOOLEAN}
  \cup {Cycle(algo) : algo \in Algos} \cup {Circle(algo) : algo \in Algos}
=============================================================================
