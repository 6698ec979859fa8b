------------------------------ MODULE MCTtcApp ------------------------------
EXTENDS TtcApp

Both == {"acceptance", "completion"}
Tc(command, arg) == [verdict |-> "Ok", command |-> command, sized |-> TRUE, acks |-> Both, arg |-> arg]

\* An answer of three packets, a refusal of each kind, a telecommand answered
\* by its completion alone or not at all, and damage.
MCFrames ==
  {Tc("ENABLE_HK", "good"), [Tc("RESET_COUNTERS", "good") EXCEPT !.acks = {"completion"}],
   [Tc("SET_MODE", "good") EXCEPT !.acks = {}],
   [Tc("TEST", "good") EXCEPT !.sized = FALSE], [Tc("TEST", "good") EXCEPT !.verdict = "BadCrc"]}
=============================================================================
