-------------------------------- MODULE MCViews -------------------------------
EXTENDS Views, TLC

CONSTANTS m1, m2, r1, r2, s1, s2, s3, t1, t2

\* The students' group has a class of maths; another group has one with the
\* same teacher; its class of physics spells the group's name another way and
\* was held in the academic year before, a level below.
MCClass ==
    s1 :> [group |-> "G1", year |-> "1CS", section |-> "A",
           semester |-> "S1", module |-> "maths",
           teacher |-> t1, date |-> 24] @@
    s2 :> [group |-> "G2", year |-> "1CS", section |-> "A",
           semester |-> "S1", module |-> "maths",
           teacher |-> t1, date |-> 20] @@
    s3 :> [group |-> "g1", year |-> "1CP", section |-> "B",
           semester |-> "S2", module |-> "physics",
           teacher |-> t2, date |-> 19]

MCPerson == [m \in Students |->
                [groupe |-> "G1", niveau |-> "1CS", filiere |-> "SIQ"]]
MCFolded == [g \in {"G1", "g1", "G2"} |-> IF g = "G2" THEN "g2" ELSE "g1"]

\* Three summaries, two at a time, race for a row; the profile and the
\* dashboard keep no row, so one of each is as good as many.
Opening(profile, stats, summaries) ==
    [profile |-> profile, stats |-> stats, summary |-> summaries]
MCScenarios ==
    {[opens |-> r1 :> Opening(1, 1, 0) @@ r2 :> Opening(0, 0, 0),
      sessions |-> Sessions],
     [opens |-> r1 :> Opening(0, 0, 2) @@ r2 :> Opening(0, 0, 1),
      sessions |-> {s2}]}

Interchangeable == Permutations(Students)

===============================================================================
