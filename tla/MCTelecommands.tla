--------------------------- MODULE MCTelecommands ---------------------------
EXTENDS Telecommands

Both == {"acceptance", "completion"}
Tc(command, arg) == [verdict |-> "Ok", command |-> command, sized |-> TRUE, acks |-> Both, arg |-> arg]

\* Every command with arguments that work and that do not, a telecommand that
\* asks for no report or for one, and each verdict of the parser.
MCFrames ==
  {Tc(c, "good") : c \in Commands}
  \cup {Tc(c, "unknown") : c \in {"ENABLE_HK", "REPORT_PARAM", "SET_PARAM"}}
  \cup {Tc("SET_PARAM", "range"), [Tc("TEST", "good") EXCEPT !.sized = FALSE]}
  \cup {[Tc(c, "good") EXCEPT !.acks = a] : c \in {"RESET_COUNTERS", "NO_SUCH_COMMAND"},
                                           a \in SUBSET Both}
  \cup {[Tc("TEST", "good") EXCEPT !.verdict = v] : v \in {"BadCrc", "BadLength", "UnknownService"}}
=============================================================================
