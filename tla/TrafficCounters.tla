--------------------------- MODULE TrafficCounters ---------------------------
(***************************************************************************)
(* The traffic figures of BuildStatusPayload (shared/desktop_v2ray_core.cc) *)
(* on Windows.  A connected session has up to three sources of figures: the *)
(* octet counter of the TUN interface, the I/O counter of the xray process, *)
(* and the octet counter of the interface below.  The interface counters    *)
(* are 32 bits wide and wrap; the core adds up the differences between one  *)
(* reading and the next, whoever asks for the payload, and forgets a source *)
(* whenever a reading fails.                                               *)
(*                                                                         *)
(* Upload and download are handled alike; one figure stands for the pair.  *)
(* A speed is positive only when the total of the same source is.          *)
(***************************************************************************)
EXTENDS Integers, FiniteSets

CONSTANTS
  Window,       \* values an interface counter has: 2^32
  Marks,        \* where an interface counter may stand at first
  Chunks,       \* by how many bytes a counter moves at once
  Modes,        \* the transport modes a start is asked for
  Failing,      \* the sources a reading may fail of
  MaxMoves,     \* bound: movements of the counters
  MaxSessions   \* bound: sessions that come up

ASSUME TrafficAssumption ==
  /\ Window \in Nat \ {0}
  /\ Marks \subseteq 0 .. (Window - 1)
  /\ Chunks \subseteq 1 .. (Window - 1)
  /\ Modes \subseteq {"tun", "proxy"}
  /\ Failing \subseteq {"tun", "process", "upstream"}
  /\ MaxMoves \in Nat /\ MaxSessions \in Nat

Wrapping == {"tun", "upstream"}
Sources  == Wrapping \cup {"process"}

VARIABLES
  state,     \* state_; CONNECTING is never seen by a status call
  autoFlag,  \* auto_disconnected_
  mode,      \* transport_mode_
  index,     \* which of tun_interface_index_ and upstream_interface_index_ have a value
  held,      \* process_ # nullptr
  running,   \* the xray process runs
  counter,   \* per source: what the system counts
  sample,    \* per source: has_.._sample_, last_.._counter_sample_, accumulated_.._bytes_
  payload,   \* the last status payload built
  session,   \* history: sessions so far
  ending,    \* history: a Stop(true) has begun to take the session down
  taken,     \* history: the session of the last payload, whether it was ending, and the
             \* readings that failed
  since,     \* history, per source: bytes since the last reading
  total,     \* history, per source: bytes since the first reading
  lapped,    \* history: sources that counted a full window between two readings
  moves      \* movements of the counters so far

core    == <<state, autoFlag, mode, index, held, running, session, ending>>
samples == <<sample, since, total, lapped>>
trafficVars == <<core, samples, counter, payload, taken, moves>>

-----------------------------------------------------------------------------
(* One source.                                                             *)

Fresh == [has |-> FALSE, last |-> 0, acc |-> 0]

\* Faulty variant: a counter that went back adds nothing.
DeltaClamped(s) ==
  IF counter[s] >= sample[s].last THEN counter[s] - sample[s].last ELSE 0

\* What the counter moved since the last reading.  An interface counter that went back has
\* wrapped; the 64 bits of the process counter do not.
Delta(s) ==
  IF counter[s] >= sample[s].last THEN counter[s] - sample[s].last
  ELSE IF s \in Wrapping THEN Window - sample[s].last + counter[s]
  ELSE 0

\* The sample after a reading: the first one only sets the mark.
Taken(s) ==
  [has |-> TRUE, last |-> counter[s],
   acc |-> sample[s].acc + IF sample[s].has THEN Delta(s) ELSE 0]

\* All samples are forgotten.
Forget ==
  /\ sample' = [s \in Sources |-> Fresh]
  /\ since'  = [s \in Sources |-> 0]
  /\ total'  = [s \in Sources |-> 0]
  /\ lapped' = {}

-----------------------------------------------------------------------------
(* What the core does to them.                                             *)

EffectiveState ==
  IF state = "DISCONNECTED" /\ autoFlag THEN "AUTO_DISCONNECTED" ELSE state

Connected == state = "CONNECTED"

\* Start established the session: a new process counts from zero.
Connect(m) ==
  /\ session < MaxSessions
  /\ session' = session + 1
  /\ state' = "CONNECTED" /\ autoFlag' = FALSE /\ mode' = m
  /\ IF m = "tun" THEN \E up \in SUBSET {"upstream"} : index' = {"tun"} \cup up
                  ELSE index' = {}
  /\ held' = TRUE /\ running' = TRUE /\ ending' = FALSE
  /\ counter' = [counter EXCEPT !["process"] = 0]
  /\ Forget
  /\ UNCHANGED <<payload, taken, moves>>

\* A complete Stop(), settling in s.
Settle(s, auto) ==
  /\ state' = s /\ autoFlag' = auto /\ mode' = "idle"
  /\ index' = {} /\ held' = FALSE /\ running' = FALSE /\ ending' = FALSE
  /\ Forget
  /\ UNCHANGED <<session, counter, payload, taken, moves>>

\* The steps of a Stop(true) that a status call can fall between.
Cleanup ==
  /\ Connected /\ held /\ ~ending
  /\ index' = {} /\ ending' = TRUE
  /\ Forget
  /\ UNCHANGED <<state, autoFlag, mode, held, running, session, counter, payload, taken, moves>>

Exit ==
  /\ running' = FALSE
  /\ UNCHANGED <<state, autoFlag, mode, index, held, session, ending, samples, counter, payload, taken,
                 moves>>

Release ==
  /\ ending /\ held
  /\ held' = FALSE
  /\ UNCHANGED <<state, autoFlag, mode, index, running, session, ending, samples, counter, payload,
                 taken, moves>>

\* A source counts n bytes more.
Move(s, n) ==
  /\ moves < MaxMoves
  /\ s = "process" => running
  /\ counter' = [counter EXCEPT ![s] =
                   IF s \in Wrapping /\ @ + n >= Window THEN @ + n - Window ELSE @ + n]
  /\ moves' = moves + 1
  /\ IF sample[s].has
     THEN /\ since' = [since EXCEPT ![s] = @ + n]
          /\ total' = [total EXCEPT ![s] = @ + n]
          /\ lapped' = IF s \in Wrapping /\ since[s] + n >= Window THEN lapped \cup {s} ELSE lapped
     ELSE UNCHANGED <<since, total, lapped>>
  /\ UNCHANGED <<core, sample, payload, taken>>

-----------------------------------------------------------------------------
(* BuildStatusPayload.                                                     *)

\* A connected session has the source.
Offered(s) == Connected /\ IF s = "process" THEN held ELSE mode = "tun" /\ s \in index

\* The sources read in any case; the interface below is the last resort.
Reads == {s \in {"tun", "process"} : Offered(s)}

\* Faulty variant: a source counts as soon as its speed shows.
ShowsSpeed(s, read) == IF s \in read /\ sample[s].has THEN Delta(s) ELSE 0

\* What a source shows: nothing unless it was read.
Shows(s, read) == IF s \in read THEN Taken(s).acc ELSE 0

\* TUN before process before upstream, as soon as one has any traffic to show; the reasons
\* given along with it, and "error" for an ERROR, are left out.
Selected(read) ==
  IF Shows("tun", read) > 0 THEN "tun"
  ELSE IF Shows("process", read) > 0 THEN "process"
  ELSE IF Shows("upstream", read) > 0 THEN "upstream" ELSE "none"

\* Whether the interface below is consulted, too.
NeedsUpstream(read) ==
  Offered("upstream") /\ Selected(read) = "none"

Phase(source, sampled) ==
  IF EffectiveState # "CONNECTED" THEN EffectiveState
  ELSE IF ~(held /\ running) \/ ~sampled THEN "VERIFYING"
  ELSE IF source # "none" THEN "ACTIVE" ELSE "READY"

BuildStatusPayload ==
  \E failing \in SUBSET Failing :
    LET first  == Reads \ failing
        asked  == Reads \cup IF NeedsUpstream(first) THEN {"upstream"} ELSE {}
        failed == asked \cap failing
        read   == asked \ failing
        source == Selected(read)
    IN
    /\ sample' = [s \in Sources |-> IF s \in read THEN Taken(s)
                                    ELSE IF s \in failed THEN Fresh ELSE sample[s]]
    /\ payload' = [state |-> EffectiveState, mode |-> mode, running |-> held /\ running,
                   source |-> source,
                   total |-> IF source = "none" THEN 0 ELSE Shows(source, read),
                   phase |-> Phase(source, \E s \in Sources : sample'[s].has)]
    /\ taken' = [session |-> session, ending |-> ending, failed |-> failed]
    /\ since' = [s \in Sources |-> IF s \in asked THEN 0 ELSE since[s]]
    /\ total' = [s \in Sources |-> IF s \in failed THEN 0 ELSE total[s]]
    /\ lapped' = lapped \ failed
    /\ UNCHANGED <<core, counter, moves>>

-----------------------------------------------------------------------------
TrafficInit ==
  /\ state = "DISCONNECTED" /\ autoFlag = FALSE /\ mode = "idle" /\ index = {}
  /\ held = FALSE /\ running = FALSE /\ session = 0
  /\ \E c \in [Wrapping -> Marks] :
       counter = [s \in Sources |-> IF s \in Wrapping THEN c[s] ELSE 0]
  /\ sample = [s \in Sources |-> Fresh]
  /\ since = [s \in Sources |-> 0] /\ total = [s \in Sources |-> 0] /\ lapped = {}
  /\ payload = [state |-> "DISCONNECTED", mode |-> "idle", running |-> FALSE,
                source |-> "none", total |-> 0, phase |-> "DISCONNECTED"]
  /\ taken = [session |-> 0, ending |-> FALSE, failed |-> {}] /\ ending = FALSE
  /\ moves = 0

TrafficNext ==
  \/ \E m \in Modes : Connect(m)
  \/ Settle("ERROR", FALSE) \/ \E auto \in BOOLEAN : Settle("DISCONNECTED", auto)
  \/ Cleanup \/ Exit \/ Release
  \/ \E s \in Sources, n \in Chunks : Move(s, n)
  \/ BuildStatusPayload

\* The figures, whoever drives the core and whenever somebody asks for them.
TrafficSpec == TrafficInit /\ [][TrafficNext]_trafficVars

-----------------------------------------------------------------------------
(* Properties.                                                             *)

TrafficTypeOK ==
  /\ state \in {"DISCONNECTED", "CONNECTED", "ERROR"} /\ autoFlag \in BOOLEAN
  /\ mode \in {"idle", "tun", "proxy"} /\ index \subseteq Wrapping
  /\ held \in BOOLEAN /\ running \in BOOLEAN /\ ending \in BOOLEAN /\ session \in Nat
  /\ counter \in [Sources -> Nat] /\ \A s \in Wrapping : counter[s] < Window
  /\ sample \in [Sources -> [has : BOOLEAN, last : Nat, acc : Nat]]
  /\ since \in [Sources -> Nat] /\ total \in [Sources -> Nat] /\ lapped \subseteq Sources
  /\ moves \in Nat

\* Two payloads of one session, before its end.
SameSession == taken.session = taken'.session /\ ~taken'.ending

\* Whoever asks for the payload and however often, and wherever the counter wraps: what a
\* source has added up is what it counted between its first and its last reading, unless a
\* full window passed between two readings.
TotalsExact ==
  \A s \in Sources \ lapped :
    sample[s].has => sample[s].acc + since[s] = total[s]

\* Within a session, as long as the source of the figures can be read: once ACTIVE, a
\* session that runs stays ACTIVE, and a total from the same source does not drop.
FiguresSteady ==
  [][(/\ payload.phase = "ACTIVE" /\ payload'.state = "CONNECTED"
      /\ SameSession
      /\ payload.source \notin taken'.failed)
      => /\ payload'.phase = "ACTIVE" \/ ~payload'.running
         /\ payload'.source = payload.source => payload'.total >= payload.total]_payload

-----------------------------------------------------------------------------
(* The inductive invariant the theorems of TrafficProofs rest on.          *)

\* A source without a sample has nothing from before.
UnsampledInv ==
  \A s \in Sources : ~sample[s].has =>
    sample[s] = Fresh /\ since[s] = 0 /\ total[s] = 0 /\ s \notin lapped

\* Less than a window after the last reading, the counter tells how far it went.
CounterInv ==
  /\ lapped \subseteq Wrapping
  /\ \A s \in Wrapping : sample[s].last < Window
  /\ \A s \in Wrapping \ lapped : sample[s].has =>
       /\ since[s] < Window
       /\ counter[s] = IF sample[s].last + since[s] < Window
                       THEN sample[s].last + since[s]
                       ELSE sample[s].last + since[s] - Window
  /\ sample["process"].has => counter["process"] = sample["process"].last + since["process"]

\* In a session that is up, the last payload showed what its source has added up, and the
\* session still has that source.
PayloadInv ==
  /\ taken.session \in 0 .. session
  /\ payload.phase = "ACTIVE" => payload.source # "none"
  /\ (taken.session = session /\ Connected /\ ~ending /\ payload.source # "none")
       => /\ payload.source \in Sources /\ Offered(payload.source)
          /\ sample[payload.source].has
          /\ sample[payload.source].acc = payload.total /\ payload.total > 0

TrafficInv == TrafficTypeOK /\ UnsampledInv /\ CounterInv /\ PayloadInv /\ TotalsExact

-----------------------------------------------------------------------------
\* What the repository says, and the code does not do.

\* "Total uploaded traffic in bytes for the current session."
\* (lib/src/models/vpn_status.dart:90): it does not drop while the session lasts.
TotalsNeverDrop ==
  [][payload.state = "CONNECTED" /\ payload'.state = "CONNECTED"
     /\ SameSession
     => payload'.total >= payload.total]_payload
=============================================================================
