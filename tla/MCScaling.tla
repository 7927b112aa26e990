----------------------------- MODULE MCScaling -----------------------------
(* Small instances of Scaling. *)
EXTENDS Scaling

Settings(min, max, cpu, rps, sched) ==
    [f \in AutoscaleFields |->
        CASE f = "min" -> min [] f = "max" -> max [] f = "cpu" -> cpu
          [] f = "rps" -> rps [] f = "sched" -> sched]

\* Resource targets and targets that need KEDA, and settings that the
\* validation refuses.  To go from the first two to the third raises the lower
\* bound, and to the fourth lowers the upper one.
SomeSettings ==
    {Settings(1, 2, 50, Nil, Nil), Settings(1, 2, Nil, 50, Nil),
     Settings(2, 2, Nil, 50, Nil), Settings(1, 1, 50, Nil, Nil),
     Settings(2, 1, 50, Nil, Nil)}

Replicas == {-5, 0, 1}
=============================================================================
