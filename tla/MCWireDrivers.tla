----------------------------- MODULE MCWireDrivers -----------------------------
(***************************************************************************)
(* The two protocols that the drivers speak bit by bit, on small           *)
(* instances: a behaviour loads the infrared receiver or a thermometer.    *)
(***************************************************************************)
EXTENDS Ds18b20

CONSTANTS BITS, SLOTS, Codes, MaxBursts, MaxDamage

ASSUME CodeAssumption == /\ BITS \in Nat \ {0} /\ SLOTS \in Nat \ {0}
                         /\ Codes \subseteq [0 .. BITS - 1 -> {0, 1}] \X [0 .. BITS - 1 -> {0, 1}]

VARIABLE drv

\* Two keys that differ in every bit of their second byte.
MCCodes == {<<[i \in 0 .. BITS - 1 |-> i % 2], [i \in 0 .. BITS - 1 |-> k]>> : k \in {0, 1}}

\* One process at every temperature from -55 to 125 degrees, a noisy transfer at
\* two, lines without a working chip, and two processes of which one sends bytes.
MCUsers == {1, 2}
MCSetting(line, raw, noisy, others) ==
    [line |-> line, raw |-> raw, noisy |-> noisy, readers |-> {1} \cup others, senders |-> others]
MCSettings == {MCSetting("chip", raw, FALSE, {}) : raw \in -880 .. 2000}
              \cup {MCSetting("chip", raw, TRUE, {}) : raw \in {-864, 401}}
              \cup {MCSetting(line, 401, TRUE, {}) : line \in {"late", "none", "low"}}
              \cup {MCSetting("chip", 401, FALSE, {2})}

\* One bit wrong of all nine bytes, two of the temperature.
MCNoises == {{}} \cup {{<<i, j>>} : i \in 1 .. 9, j \in 0 .. 7}
            \cup {flips \in SUBSET ((1 .. 2) \X (0 .. 7)) : Cardinality(flips) = 2}

Hs0038 == INSTANCE Hs0038

MCInit == \/ drv = "hs0038" /\ Hs0038!Init(TRUE)
          \/ drv = "parse_only" /\ Hs0038!Init(FALSE)
          \/ drv = "ds18b20" /\ Init

MCNext == /\ \/ drv = "hs0038" /\ Hs0038!InputNext
             \/ drv = "parse_only" /\ Hs0038!ParseOnlyNext
             \/ drv = "ds18b20" /\ Next
          /\ UNCHANGED drv

Spec == MCInit /\ [][MCNext]_<<wire, dev, user, drv>>

IsHs0038 == drv \in {"hs0038", "parse_only"}
CodesWereSent == IsHs0038 => Hs0038!CodesWereSent
FrameHeard == IsHs0038 => Hs0038!FrameHeard
OwnConversionHolds == drv = "ds18b20" => OwnConversion
TrueTemperatureHolds == drv = "ds18b20" => TrueTemperature

===============================================================================
