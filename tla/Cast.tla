-------------------------------- MODULE Cast ---------------------------------
(***************************************************************************)
(* What the recorder makes of a session's streams                          *)
(* (internal/recording/recorder.go): the text of the events of an          *)
(* asciicast, and the intervals between them.  Every action is one call    *)
(* under Recorder.mu.                                                      *)
(*                                                                         *)
(* A byte is its class: 0 continues a character, 1 is one by itself (or    *)
(* could never be part of a longer one), 2 to 4 lead a character of that   *)
(* length.                                                                 *)
(***************************************************************************)
EXTENDS Integers, Sequences

CONSTANTS
  Half,       \* half a millisecond, in the unit of the clock
  MaxIdleTime,
  Gaps,       \* the times that may pass between two events
  MaxRead,    \* bound on the bytes of one event
  MaxBytes    \* bound on the bytes of the two streams

\* The monotonic clock advances between two events.
ASSUME ClockAssumption ==
  Half \in Nat \ {0} /\ MaxIdleTime \in Nat \ {0} /\ Gaps \subseteq Nat \ {0}
ASSUME ReadsAssumption == MaxRead \in Nat /\ MaxBytes \in Nat

VARIABLES
  heard,      \* history: the bytes recorded of each stream
  partial,    \* Recorder.partial
  text,       \* the data of the events of each kind, put together
  clock,      \* Recorder.msCarry, and as history: how far the recording is ahead of the
              \* time that passed, and whether an interval was negative
  ended       \* Recorder.closed

castVars == <<heard, partial, text, clock, ended>>

Bytes == 0..4
UTFMax == 4
Replacement == 5    \* U+FFFD
Kinds == {"o", "i"}
Reads == UNION {[1..n -> Bytes] : n \in 1..MaxRead}

Millisecond == 2 * Half

\* utf8.FullRune: a character starts at i and is all there.
Whole(p, i) ==
  /\ p[i] > 0 /\ i + p[i] - 1 <= Len(p)
  /\ \A j \in i + 1 .. i + p[i] - 1 : p[j] = 0

\* encoding/json keeps a character as it is and replaces every other byte. A byte that
\* leads one never continues another, so whether it does is a matter of what follows it.
MarshalEventData(p) ==
  [i \in 1..Len(p) |->
     IF \E j \in 1..i : Whole(p, j) /\ i < j + p[j] THEN p[i] ELSE Replacement]

\* Mutant: the head of a character may be two bytes at most.
MutIncompleteTail(p) ==
  LET starts == {i \in 1 .. UTFMax - 2 : i <= Len(p) /\ p[Len(p) - i + 1] > 0}
  IN IF starts = {} THEN 0
     ELSE LET i == CHOOSE i \in starts : \A j \in starts : i <= j
          IN IF p[Len(p) - i + 1] > i THEN i ELSE 0

\* How long the head of a character is that p ends in the middle of.
IncompleteTail(p) ==
  LET starts == {i \in 1 .. UTFMax - 1 : i <= Len(p) /\ p[Len(p) - i + 1] > 0}
  IN IF starts = {} THEN 0
     ELSE LET i == CHOOSE i \in starts : \A j \in starts : i <= j
          IN IF p[Len(p) - i + 1] > i THEN i ELSE 0

\* math.Round, half away from zero, in milliseconds.
Round(t) ==
  IF t >= 0 THEN (t + Half) \div Millisecond ELSE -((Half - t) \div Millisecond)

\* Mutant: every interval is rounded by itself.
MutRoundInterval(c, gap) ==
  [carry |-> 0, drift |-> c.drift + Round(gap) * Millisecond - gap, back |-> c.back]

\* roundInterval: the rounding error is carried to the next interval.
RoundInterval(c, gap) ==
  LET ms == Round(c.carry + gap)
  IN [carry |-> c.carry + gap - ms * Millisecond,
      drift |-> c.drift + ms * Millisecond - gap,
      back  |-> c.back \/ ms < 0]

\* emit's interval: the gap is clamped, so that playback skips idle time.
Emit(c, gap) == RoundInterval(c, IF gap < MaxIdleTime THEN gap ELSE MaxIdleTime)

EmitIf(needed, c, gap) == IF needed THEN Emit(c, gap) ELSE c

\* Recorder.event: the head of a character waits for the next event of its kind.
Event(kind, data, gap) ==
  LET got == partial[kind] \o data
      cut == Len(got) - IncompleteTail(got)
  IN /\ ~ended /\ Len(heard["o"]) + Len(heard["i"]) + Len(data) <= MaxBytes
     /\ partial' = [partial EXCEPT ![kind] = SubSeq(got, cut + 1, Len(got))]
     /\ text' = [text EXCEPT ![kind] = @ \o MarshalEventData(SubSeq(got, 1, cut))]
     /\ heard' = [heard EXCEPT ![kind] = @ \o data]
     /\ clock' = Emit(clock, gap)
     /\ UNCHANGED ended

\* RecordResize: an event of its own kind, plain ASCII.
RecordResize(gap) ==
  /\ ~ended
  /\ clock' = Emit(clock, gap)
  /\ UNCHANGED <<heard, partial, text, ended>>

\* closeLocked, by Close or by the event that finds the limit reached and is dropped: a
\* head that was never completed is recorded as it stands, then the exit code if known.
CloseCast ==
  /\ ~ended
  /\ ended' = TRUE
  /\ text' = [k \in Kinds |-> text[k] \o MarshalEventData(partial[k])]
  /\ \E exit \in BOOLEAN, g1, g2, g3 \in Gaps :
       clock' = EmitIf(exit, EmitIf(partial["i"] # <<>>,
                                    EmitIf(partial["o"] # <<>>, clock, g1), g2), g3)
  /\ UNCHANGED <<heard, partial>>

CastInit ==
  /\ heard = [k \in Kinds |-> <<>>] /\ partial = [k \in Kinds |-> <<>>]
  /\ text = [k \in Kinds |-> <<>>]
  /\ clock = [carry |-> 0, drift |-> 0, back |-> FALSE] /\ ended = FALSE

CastNext ==
  \/ \E k \in Kinds, data \in Reads, gap \in Gaps : Event(k, data, gap)
  \/ \E gap \in Gaps : RecordResize(gap)
  \/ CloseCast

CastSpec == CastInit /\ [][CastNext]_castVars
-----------------------------------------------------------------------------
(***************************************************************************)
(* However the reads of the two streams cut characters and interleave,     *)
(* each stream reads in the recording as it would had it been recorded in  *)
(* one piece (recorder.go:213).  Until the recorder is closed the last     *)
(* three bytes of it may be missing, and nothing else.                     *)
(***************************************************************************)
TextIsKept ==
  \A k \in Kinds :
    /\ text[k] = SubSeq(MarshalEventData(heard[k]), 1, Len(text[k]))
    /\ Len(heard[k]) - Len(text[k]) \in 0 .. UTFMax - 1
    /\ ended => text[k] = MarshalEventData(heard[k])

(***************************************************************************)
(* "the written intervals sum to the real time" (recorder.go:69), to half  *)
(* a millisecond after any number of events, and none of them is negative. *)
(***************************************************************************)
TimeIsKept == clock.drift \in -Half..Half /\ ~clock.back
=============================================================================
