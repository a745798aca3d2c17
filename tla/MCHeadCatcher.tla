--------------------------- MODULE MCHeadCatcher ---------------------------
(***************************************************************************)
(* HeadCatcher for TLC, with the loop of arrayOfTargetHeights as the code   *)
(* has it.                                                                 *)
(***************************************************************************)
EXTENDS HeadCatcher

\* while (n > targetHeight) { n = ...; targets.push(n) }
LoopOfTargetHeights(newHeight, targetHeight) ==
    LET cut(n) == IF n - targetHeight >= BatchSize THEN n - BatchSize ELSE targetHeight
        targets[n \in Int] ==
            IF n <= targetHeight THEN <<>> ELSE <<cut(n)>> \o targets[cut(n)]
    IN  targets[newHeight]

\* The targets computed are those of the loop, down to the last, shorter batch.
ASSUME TargetsAreThoseOfTheLoop ==
    \A n, t \in 0..(4 * BatchSize) :
        arrayOfTargetHeights(n, t) = LoopOfTargetHeights(n, t)
=============================================================================
