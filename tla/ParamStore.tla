----------------------------- MODULE ParamStore -----------------------------
(***************************************************************************)
(* The on-board parameter table and its copy in non-volatile storage,      *)
(* through boots, telecommanded writes, clean shutdowns, crashes (also in  *)
(* the middle of a write), storage errors and software uploads.            *)
(*                                                                         *)
(* A value is an integer number of steps, Grid of which make one value its *)
(* type can hold exactly: an integer for U32, a float for F32, while a     *)
(* telecommand and the limits carry a double and may lie between.  The CRC *)
(* of a block is its content, so that damage is always found.              *)
(***************************************************************************)
EXTENDS Integers, Sequences

CONSTANTS
  Builds,     \* the parameter dictionaries successive software builds carry
  Grid,       \* steps between two values a type holds exactly
  Inputs,     \* the values a telecommand may carry
  NaN,        \* the one that is not a number
  MaxBoots    \* bound on the number of boots

Types == {"U32", "F32"}

ASSUME StoreAssumption ==
  /\ Grid \in {n \in Nat : n % 2 = 1} /\ NaN \in Int /\ Inputs \subseteq Int
  /\ MaxBoots \in Nat

\* Every declared default lies within its limits, in every build.
ASSUME BuildsAssumption ==
  \A b \in Builds :
    /\ b \in Seq([type : Types, min : Nat, max : Nat, default : Nat])
    /\ \A i \in DOMAIN b :
         /\ b[i].min <= b[i].default /\ b[i].default <= b[i].max
         /\ b[i].default % Grid = 0
         /\ NaN \notin b[i].min .. b[i].max

VARIABLES
  build,      \* dict::kParams of the software that is installed
  values,     \* values_
  dirty,      \* dirty_
  nvm,        \* block 0 of the storage
  phase,      \* "off", "running" or "saving"
  boots,
  status      \* what the last boot found in the storage

\* History: what this boot started from, every table completely saved, and
\* the table a restart must bring back, <<>> when nothing promises one.
VARIABLES booted, saved, kept

vars == <<build, values, dirty, nvm, phase, boots, status, booted, saved, kept>>

-----------------------------------------------------------------------------
\* IEEE comparison: false whenever an operand is not a number.
Less(a, b) == a # NaN /\ b # NaN /\ a < b

OutOfLimits(p, v) == Less(v, p.min) \/ Less(p.max, v)

Defaults(b) == [i \in DOMAIN b |-> b[i].default]

\* Round-trip through the declared type: an integer truncates, a float rounds.
Truncate(v) == v - (v % Grid)
Round(v)    == Truncate(v + (Grid \div 2))
Quantise(type, v) == IF type = "U32" THEN Truncate(v) ELSE Round(v)

SetStatus(i, v) ==
  IF i \notin DOMAIN build            THEN "NotFound"
  ELSE IF OutOfLimits(build[i], v)    THEN "OutOfRange"
  ELSE IF v = NaN                     THEN "Invalid"
  ELSE "Ok"

\* A block as save() lays it out, as the medium holds it before the first
\* save (zeroes), and as a reset leaves it after k values of a write in place.
Block(vs)   == [count |-> Len(vs), values |-> vs, crc |-> <<Len(vs), vs>>]
Blank       == [count |-> 0, values |-> <<>>, crc |-> <<>>]
Torn(old, new, k) ==
  [count  |-> new.count,
   values |-> [i \in DOMAIN new.values |->
                 IF i <= k THEN new.values[i]
                 ELSE IF i \in DOMAIN old.values THEN old.values[i] ELSE 0],
   crc    |-> old.crc]

\* The CRC is run over the length of THIS build's table: a shorter block is
\* followed by zeroes, which leave the residue zero, a longer one is cut.
\* Mutant of Intact: the CRC is not looked at.
IntactUnchecked(block) == block.count <= Len(build)

Intact(block) == block.crc = <<block.count, block.values>> /\ block.count <= Len(build)

\* Mutant of LoadStatus: an intact block is trusted.
LoadStatusUnchecked(block) ==
  IF ~Intact(block) THEN "IoError" ELSE IF block.count # Len(build) THEN "Invalid" ELSE "Ok"

LoadStatus(block) ==
  IF ~Intact(block)                   THEN "IoError"
  ELSE IF block.count # Len(build)    THEN "Invalid"
  ELSE IF \E i \in DOMAIN build :
            block.values[i] = NaN \/ OutOfLimits(build[i], block.values[i])
                                      THEN "OutOfRange"
  ELSE "Ok"

Load(block) == [i \in DOMAIN build |-> Quantise(build[i].type, block.values[i])]

\* The table a boot runs on: all of the stored block, once every value of it has
\* passed, or the defaults.
BootTable(s) == IF s = "Ok" THEN Load(nvm) ELSE Defaults(build)

-----------------------------------------------------------------------------
Init ==
  /\ build \in Builds /\ values = Defaults(build) /\ dirty = FALSE
  /\ nvm = Blank /\ phase = "off" /\ boots = 0 /\ status = "IoError"
  /\ booted = values /\ saved = {} /\ kept = <<>>

\* main(): defaults first, then the stored block if it can be read and loaded.
Boot ==
  /\ phase = "off" /\ boots < MaxBoots
  /\ \E readable \in BOOLEAN :
       LET s == IF readable THEN LoadStatus(nvm) ELSE "IoError"
       IN /\ status' = s
          /\ values' = BootTable(s)
          /\ kept' = IF readable THEN kept ELSE <<>>
  /\ booted' = values'
  /\ dirty' = FALSE
  /\ phase' = "running" /\ boots' = boots + 1
  /\ UNCHANGED <<build, nvm, saved>>

\* Mutant of Set: the change is not noted.
SetLeavesClean(i, v) ==
  /\ phase = "running" /\ SetStatus(i, v) = "Ok"
  /\ values' = [values EXCEPT ![i] = Quantise(build[i].type, v)]
  /\ UNCHANGED <<build, dirty, nvm, phase, boots, status, booted, saved, kept>>

\* ST[20,3]; a refused write changes nothing.
Set(i, v) ==
  /\ phase = "running"
  /\ SetStatus(i, v) = "Ok"
  /\ values' = [values EXCEPT ![i] = Quantise(build[i].type, v)]
  /\ dirty' = TRUE
  /\ UNCHANGED <<build, nvm, phase, boots, status, booted, saved, kept>>

\* Mutant of Shutdown: nothing is written.
ShutdownUnsaved ==
  /\ phase = "running" /\ phase' = "off" /\ kept' = values
  /\ UNCHANGED <<build, values, dirty, nvm, boots, status, booted, saved>>

\* The end of main(): the table is written only if it is dirty.
Shutdown ==
  /\ phase = "running"
  /\ phase' = IF dirty THEN "saving" ELSE "off"
  /\ kept' = IF ~dirty /\ status = "Ok" THEN values ELSE kept
  /\ UNCHANGED <<build, values, dirty, nvm, boots, status, booted, saved>>

Save ==
  /\ phase = "saving"
  /\ nvm' = Block(values)
  /\ phase' = "off"
  /\ saved' = saved \cup {values}
  /\ kept' = values
  /\ UNCHANGED <<build, values, dirty, boots, status, booted>>

\* A write error, or a reset, before anything or after k values have reached
\* the medium; main() ignores what write() returned.
SaveTorn ==
  /\ phase = "saving"
  /\ nvm' \in {nvm} \cup {Torn(nvm, Block(values), k) : k \in 0 .. Len(values)}
  /\ phase' = "off"
  /\ kept' = <<>>
  /\ UNCHANGED <<build, values, dirty, boots, status, booted, saved>>

\* An unplanned reset runs no code.
Crash ==
  /\ phase = "running"
  /\ phase' = "off"
  /\ kept' = <<>>
  /\ UNCHANGED <<build, values, dirty, nvm, boots, status, booted, saved>>

\* Radiation: one stored value is no longer what was written.
Corrupt ==
  /\ phase = "off" /\ nvm.values # <<>>
  /\ \E k \in DOMAIN nvm.values, v \in Inputs : nvm' = [nvm EXCEPT !.values[k] = v]
  /\ kept' = <<>>
  /\ UNCHANGED <<build, values, dirty, phase, boots, status, booted, saved>>

\* A software upload: the same storage meets another dictionary.
Upload ==
  /\ phase = "off"
  /\ build' \in Builds \ {build}
  /\ values' = Defaults(build')
  /\ booted' = values' /\ dirty' = FALSE /\ status' = "IoError"
  /\ kept' = <<>>
  /\ UNCHANGED <<nvm, phase, boots, saved>>

Next == \/ Boot \/ Shutdown \/ Save \/ SaveTorn \/ Crash \/ Corrupt \/ Upload
        \/ \E i \in 1 .. Len(build) + 1, v \in Inputs : Set(i, v)

Spec == Init /\ [][Next]_vars

-----------------------------------------------------------------------------
\* "Range checking": every value flight code can read is what its type makes
\* of some value within the limits of the build that is running.
Vouched(i, v) == \E x \in build[i].min .. build[i].max : v = Quantise(build[i].type, x)
ValuesAreVouched == \A i \in DOMAIN build : Vouched(i, values[i])

\* "A value that fails its range check cannot leave the table half-updated" and
\* "the system never boots on a value it cannot vouch for": whatever resets and
\* uploads did, a boot ends on the defaults or on a table that was saved whole.
BootsOnASavedTable ==
  [][phase = "off" /\ phase' = "running" => values' \in saved \cup {Defaults(build)}]_vars

\* Shutdown saves nothing when the table is clean, so clean must mean that
\* nothing changed since the boot.
CleanMeansUnchanged == phase = "running" /\ ~dirty => values = booted

\* Limits that the type holds exactly are not crossed by rounding.
Representable == \A i \in DOMAIN build : build[i].min % Grid = 0 /\ build[i].max % Grid = 0

\* With such limits, the boot after a clean shutdown brings back the table that
\* the shutdown left, whether or not it had to be written.
RestartKeepsTheTable ==
  [][phase = "off" /\ phase' = "running" /\ kept' # <<>> /\ Representable => values' = kept]_vars

\* "A parameter written before a restart is still set after it", with whatever
\* limits the dictionary declares.
RestartKeepsEveryTable ==
  [][phase = "off" /\ phase' = "running" /\ kept' # <<>> => values' = kept]_vars
=============================================================================
