------------------------------- MODULE MCWire -------------------------------
EXTENDS Wire

\* Every telecommand; the argument octets all differ.
MCOrders ==
  <<[name |-> "TEST_CONNECTION", args |-> <<>>],
    [name |-> "ENABLE_HK", args |-> [sid |-> 1]],
    [name |-> "DISABLE_HK", args |-> [sid |-> 254]],
    [name |-> "REPORT_PARAM", args |-> [param_id |-> 258]],
    [name |-> "SET_PARAM", args |-> [param_id |-> 5, value |-> <<16500, 1, 515, 65535>>]],
    [name |-> "SET_MODE", args |-> [mode |-> "BOOT"]],
    [name |-> "SET_MODE", args |-> [mode |-> "POINTING"]],
    [name |-> "RESET_COUNTERS", args |-> <<>>]>>

\* A value that tells every octet of every field from the others.
Value(type, k) ==
  CASE Width[type] = 1 -> 128 + k
    [] Width[type] = 2 -> 256 * k + 128 + k
    [] OTHER -> [i \in 1 .. Width[type] \div 2 |-> 256 * k + 64 + i]
Distinct(sid, enum, n) ==
  LET layout == HkLayout(sid)
      index(f) == CHOOSE k \in DOMAIN layout : layout[k][1] = f
  IN [f \in {layout[k][1] : k \in DOMAIN layout} |->
        IF f = enum THEN n ELSE Value(layout[index(f)][2], index(f))]

Hk(sid, enum, n) == [kind |-> "hk", sid |-> sid, values |-> Distinct(sid, enum, n)]

EventNames == <<"BOOT_COMPLETE", "MODE_CHANGED", "LINK_CONNECTED", "LINK_LOST", "HK_ENABLED",
                "HK_DISABLED", "PARAM_SET", "SCHED_OVERRUN", "MODE_REFUSED", "SAFE_MODE_ENTERED">>

MCReports ==
  [k \in DOMAIN EventNames |-> [kind |-> "event", event |-> EventNames[k], aux |-> <<k, 2>>]]
  \o [k \in 1 .. 6 |-> [kind |-> "event", event |-> "TC_REJECTED", aux |-> <<0, k>>]]
  \o <<[kind |-> "test"],
       [kind |-> "param", param |-> "SYS_HK_PERIOD_MS", value |-> <<16527, 16384, 0, 0>>],
       [kind |-> "param", param |-> "LINK_TIMEOUT_S", value |-> <<1, 2, 3, 4>>],
       Hk("SYS_HK", "mode", 0), Hk("ADCS_HK", "est_state", 0), Hk("ADCS_HK", "est_state", 3),
       Hk("EPS_HK", "power_state", 1), Hk("EPS_HK", "power_state", 3)>>

\* Times at the edges of a second and of a tick; counters at their wrap.
Stamp(seq, count, us) == [seq |-> seq, count |-> count, us |-> us]
MCStamps ==
  {Stamp(0, 0, 0), Stamp(2, 1, 16), Stamp(16383, 65535, 999985), Stamp(4660, 258, 999999),
   Stamp(8192, 32768, 1000015)}

MCCounts == {4660, 16383, 16384}

\* A single bit, both ends of sixteen and all of them, on and off the octet's
\* edge; and the burst that makes the length field of the shortest packet 65535.
Shl(word, n) == LET w == word * (2 ^ n) IN <<w \div 65536, (w \div 256) % 256, w % 256>>
MCBursts == {Shl(1, 0), Shl(32769, 3), Shl(65535, 7), Shl(65535, 0), <<255, 249>>}
=============================================================================
