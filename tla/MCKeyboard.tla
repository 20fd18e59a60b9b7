------------------------------- MODULE MCKeyboard -------------------------------
(* Machines for Ps2 and Keyboard: keyboards with and without translation, mice, broken  *)
(* and absent devices, one channel or two.                                 *)
EXTENDS Keyboard

Keyboards == { [reset |-> <<250, 170>>, id |-> <<171, 131>>, healthy |-> TRUE],
               [reset |-> <<250, 170>>, id |-> <<171, 65>>, healthy |-> TRUE],
               [reset |-> <<250, 252>>, id |-> <<171, 131>>, healthy |-> FALSE],
               [reset |-> <<250, 170>>, id |-> <<>>, healthy |-> FALSE] }
Mice == { [reset |-> <<250, 170, 0>>, id |-> <<0>>, healthy |-> TRUE],
          [reset |-> <<250, 170, 0>>, id |-> <<3>>, healthy |-> TRUE],
          [reset |-> <<250, 252, 0>>, id |-> <<0>>, healthy |-> FALSE] }

MCLate == 0 .. 45

MCLights == <<1, 3, 4>>

Pair(a, b) == [d \in {0, 1} |-> IF d = 0 THEN a ELSE b]

MCMachines ==
  { [selftest |-> st, dual |-> dual, test |-> Pair(t0, t1), present |-> Pair(p0, dual /\ p1),
     reset |-> Pair(k.reset, m.reset), id |-> Pair(k.id, m.id), healthy |-> Pair(k.healthy, m.healthy)] :
       st \in {85, 252}, dual, p0, p1 \in BOOLEAN, t0, t1 \in {0, 1}, k \in Keyboards, m \in Mice }

\* What the theorems about the drivers and the lights ask for.
ASSUME MachinesGiven /\ LightsGiven
=============================================================================
