------------------------------- MODULE CucTime -------------------------------
(***************************************************************************)
(* Mission time in the CCSDS Unsegmented Code 4.2: whole seconds and       *)
(* 1/65536ths of one.  Time is counted in microseconds, of which 15625     *)
(* make 1024 of these; the 32 bits of seconds, 136 years, do not wrap.     *)
(***************************************************************************)
EXTENDS Integers

Million == 1000000

\* frac is kept below one second's worth of fine time.
kMaxFraction == 999985

Fraction(us) == IF us % Million > kMaxFraction THEN kMaxFraction ELSE us % Million
Fine(us)     == ((Fraction(us) * 1024) \div 15625) % 65536
Coarse(us)   == us \div Million

\* to_seconds(), in 1/65536ths.
ToTicks(coarse, fine) == coarse * 65536 + fine
=============================================================================
