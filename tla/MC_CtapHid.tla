----------------------------- MODULE MC_CtapHid -----------------------------
(* Small instances of CtapHid.  Reports are of the smallest legal size, 8   *)
(* bytes: one byte of data in a first report and three in the others, so    *)
(* that messages of a few bytes already take several reports.               *)
EXTENDS CtapHidRefines

VARIABLE clocked   \* which of two kinds of behaviour this is

\* The longest message whose sequence numbers stay below 128, and one more.
LongRequests == {1 + 3 * 128, 2 + 3 * 128}

\* A request with no data, one of two or three reports, and at first a long one.
ThreeRequests == <<{0, 4, 5} \cup LongRequests, {0, 4, 5}, {5}>>

\* Replies of two and three reports, and of four, which the buffer does not hold.
SmallReplies == {4, 5, 8}

\* Two commands of two reports either way, which take time, in whole milliseconds but for
\* MaxRests reports (a report may always take no time, so that nothing is held up) ...
MaxRests == 3

Clocked ==
  /\ cur <= 2 /\ Len(request) = 4 /\ loss = 0 /\ rests <= MaxRests
  /\ \A m \in made : m[2] = 4

\* ... or three of other lengths, whose reports may be lost, and which take
\* no time until a read gives up.
Unclocked ==
  /\ Len(request) # 4
  /\ Cardinality({i \in 1 .. Len(inq) : IsNoise(inq[i])}) <= 1
  /\ elapsed = 0 \/ (pc = "idle" /\ elapsed = ms * Ticks)
  /\ \A m \in made : m[2] = 5 \/ (m[2] = 8 /\ m[1] = 1)

MCInit == Init /\ clocked \in BOOLEAN

\* A caller may also issue no further command.
MCNext ==
  /\ UNCHANGED clocked
  /\ \/ Next /\ (IF clocked THEN Clocked ELSE Unclocked)'
     \/ pc = "idle" /\ UNCHANGED vars

MCSpec == MCInit /\ [][MCNext]_<<vars, clocked>> /\ WF_vars(Host)
=============================================================================
