------------------------------ MODULE NtpTime ------------------------------
(***************************************************************************)
(* The timestamps of an NTP packet and what the ntp runner computes from   *)
(* them (internal/runner/ntp.go).  A time is a number of nanoseconds since *)
(* 1970 on some clock; a timestamp has unsigned seconds since 1900, which  *)
(* wrap around after an era, and a binary fraction of a second.  The units *)
(* are parameters: 10^9, 2^32, 2^32 and 2208988800 in the code.            *)
(***************************************************************************)
EXTENDS Integers

CONSTANTS
  Nanos,        \* nanoseconds of a second
  Fracs,        \* steps of a timestamp's fraction
  Era,          \* seconds of an era
  EpochOffset   \* seconds from 1900 to 1970

(* What the results below need of the units. *)
Units ==
  /\ Nanos \in Nat \ {0} /\ Fracs \in Nat /\ Fracs >= Nanos
  /\ Era \in Nat /\ Era >= 2
  /\ EpochOffset \in Int

(* Both conversions round down. *)
writeNTPTime(t) ==
  [secs |-> (t \div Nanos + EpochOffset) % Era,
   frac |-> ((t % Nanos) * Fracs) \div Nanos]

readNTPTime(s) == (s.secs - EpochOffset) * Nanos + (s.frac * Nanos) \div Fracs

(* What becomes of a time on its way through a packet. *)
Wire(t) == readNTPTime(writeNTPTime(t))

(* t1 and t4 are read off the agent's clock, t2 and t3 come in the packet. *)
Delay(t1, t2, t3, t4) == (t4 - t1) - (t3 - t2)

TwiceOffset(t1, t2, t3, t4) == (t2 - t1) + (t3 - t4)

(* The error_type of a reply; none when the measurement is good. *)
ReplyError(mode, stratum, originTime, t1) ==
  IF mode # 4 THEN "invalid_mode"
  ELSE IF stratum = 0 THEN "kiss_of_death"
  ELSE IF originTime - t1 \notin -Nanos..Nanos THEN "origin_mismatch"
  ELSE ""

(* The result for a server that does as the protocol says: its clock is    *)
(* ahead by theta, the packets travel out and back, it works in between.   *)
Measured(t1, theta, out, work, back) ==
  LET t2 == Wire(t1 + out + theta)
      t3 == Wire(t1 + out + theta + work)
      t4 == t1 + out + work + back
  IN  [error_type  |-> ReplyError(4, 1, Wire(t1), t1),
       delay       |-> Delay(t1, t2, t3, t4),
       twiceOffset |-> TwiceOffset(t1, t2, t3, t4)]

-----------------------------------------------------------------------------
(* Era 0 ends in 2036. *)
InEra(t, n) == (t \div Nanos) + EpochOffset \in (n * Era)..((n + 1) * Era - 1)

(* A good server, in this era: its reply is accepted, the delay is that of *)
(* the network, and the offset is wrong by at most half of the delay, in   *)
(* either direction (NTPRunner.Run; the packet costs each of the two times *)
(* of the server up to one nanosecond).                                    *)
GoodMeasurement(t1, theta, out, work, back) ==
  LET m == Measured(t1, theta, out, work, back)
  IN  /\ m.error_type = ""
      /\ m.delay \in (out + back - 1)..(out + back + 1)
      /\ m.twiceOffset - 2 * theta \in (-(out + back) - 2)..(out + back)

(* From 2036 on a good server's reply fails the runner's origin check: the *)
(* echoed time is read as one of the era before (readNTPTime).             *)
RolledOver(t1, theta, out, work, back) ==
  Measured(t1, theta, out, work, back).error_type = "origin_mismatch"
=============================================================================
