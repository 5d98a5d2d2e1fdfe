------------------------------ MODULE MediaTool ------------------------------
(***************************************************************************)
(* What the command line examples share: a main() that opens files and     *)
(* codecs, handles a packet at a time and returns an exit code, and the    *)
(* parts of libavformat and libavcodec it calls.  Each tool has a module   *)
(* of its own; input is what its files hold, own its local variables.      *)
(***************************************************************************)
EXTENDS Integers, SequencesExt

VARIABLES
  program,   \* which of the examples runs
  tpc,       \* where main() is: "open", "loop", ..., "ended"
  code,      \* the exit code
  input,     \* the input, a record
  taken,     \* packets read from input.packets
  inside,    \* what the codec has taken and not given out
  out,       \* what has been written, in order, per output
  own        \* the other variables of main(), a record

toolVars == <<program, tpc, code, input, taken, inside, out, own>>

NoCode == 99
Crashed == 139

ToolInit(name, inputs, outputs, locals) ==
  /\ program = name
  /\ tpc = "open" /\ code = NoCode
  /\ input \in inputs
  /\ taken = 0 /\ inside = <<>>
  /\ out = [o \in outputs |-> <<>>]
  /\ own \in locals

\* main() ends: return, exit(), or a signal.
Exits(c) == tpc' = "ended" /\ code' = c /\ UNCHANGED program

GoesTo(p) == tpc' = p /\ UNCHANGED <<program, code>>

\* Nothing else happens.
OnlyExits(c) == Exits(c) /\ UNCHANGED <<input, taken, inside, out, own>>
OnlyGoesTo(p) == GoesTo(p) /\ UNCHANGED <<input, taken, inside, out, own>>

\* Something fails before anything is written.
OpenFailure(codes) == tpc = "open" /\ \E c \in codes : OnlyExits(c)

OpenSucceeds == tpc = "open" /\ OnlyGoesTo("loop")

\* av_read_frame() returns a packet, or fails: at the end of the file, or before it.
AtPacket == tpc = "loop" /\ taken < Len(input.packets)
AtEnd == tpc = "loop" /\ taken = Len(input.packets)
AtReadError == tpc = "loop"

Packet == input.packets[taken + 1]
Reads == taken' = taken + 1
SkipsPacket == Reads /\ GoesTo("loop") /\ UNCHANGED <<input, inside, out, own>>

\* av_rescale_q_rnd(t, from, to, AV_ROUND_NEAR_INF), for bases of 1/from and 1/to
\* seconds and t >= 0.
Rescale(t, from, to) == (2 * t * to + from) \div (2 * from)

\* av_interleaved_write_frame() refuses a dts that is not later than those
\* of its stream before, the set written, and may fail anyway.
Accepts(written, dts) == \A w \in written : w.dts < dts

\* A codec takes x.  It may give out its oldest frame, and must once it has
\* delay frames.
Holds(x, delay) == Len(inside) < delay /\ inside' = Append(inside, x)
GivesOut(x) == inside' = Tail(Append(inside, x))
Oldest(x) == Head(Append(inside, x))

-----------------------------------------------------------------------------

\* The numbers of S, each once and in order, are what the sequence s holds.
Lists(s, S) ==
  /\ {s[k] : k \in DOMAIN s} = S
  /\ \A i, j \in DOMAIN s : i < j => s[i] < s[j]

=============================================================================
