------------------------------ MODULE Synthetic ------------------------------
(***************************************************************************)
(* The examples that make their own input: example/3-12-resampling_audio   *)
(* resamples a tone, example/3-10-scaling_video scales test pictures.      *)
(*                                                                         *)
(* The resampler's backlog is in units of 1/7056000 s: a source sample is  *)
(* 147 of them and a destination sample 160 (48000 and 44100 Hz).          *)
(***************************************************************************)
EXTENDS MediaTool

CONSTANTS
  SrcSamples,   \* src_nb_samples: 1024
  Taps,         \* source samples the resampler's filter looks ahead
  Rounds,       \* rounds until t >= 10: 469
  Pictures      \* 100

ASSUME SyntheticAssumption ==
  SrcSamples \in Nat /\ Taps \in Nat /\ Rounds \in Nat /\ Pictures \in Nat

Src == 147
Dst == 160

Ceil(a, b) == (a + b - 1) \div b

\* allocated: room in dst_data; offered: what swr_convert() was told of it.
ResamplingInit ==
  ToolInit("resampling", {<<>>}, {"pcm"},
           {[backlog |-> 0, allocated |-> 0, max |-> 0, offered |-> 0]})

\* exit(1), or goto end with ret below 0.
ResamplingOpenFails == OpenFailure({1})

\* max_dst_nb_samples = dst_nb_samples
ResamplingOpen ==
  /\ tpc = "open"
  /\ LET n == Ceil(SrcSamples * Src, Dst)
     IN own' = [own EXCEPT !.allocated = n, !.max = n]
  /\ GoesTo("loop")
  /\ UNCHANGED <<input, taken, inside, out>>

\* swr_get_delay() rounds what is in the resampler to source samples.
Delays == {own.backlog \div Src, Ceil(own.backlog, Src)}

\* Mutant: the new size is noted and the array is not allocated anew.
SizedNotAllocated(n) ==
  IF n > own.max THEN [own EXCEPT !.max = n] ELSE own

\* av_freep() and av_samples_alloc() when more samples are due than ever before.
Sized(n) ==
  IF n > own.max THEN [own EXCEPT !.max = n, !.allocated = n] ELSE own

\* All the source samples go in, and as many as fit and are ready come out.
ResamplingConvert ==
  /\ tpc = "loop" /\ taken < Rounds
  /\ \E d \in Delays :
       LET n == Ceil((d + SrcSamples) * Src, Dst)
           ready == own.backlog + SrcSamples * Src
           some == Min({n, Max({0, (ready - Taps * Src) \div Dst})})
       IN own' = [Sized(n) EXCEPT !.offered = n, !.backlog = ready - some * Dst]
  /\ Reads /\ GoesTo("loop")
  /\ UNCHANGED <<input, inside, out>>

\* av_samples_alloc() fails: break, and ret is overwritten with 0.
ResamplingNoMemory ==
  /\ tpc = "loop" /\ taken < Rounds
  /\ \E d \in Delays : Ceil((d + SrcSamples) * Src, Dst) > own.max
  /\ own' = [own EXCEPT !.allocated = 0]
  /\ Exits(0)
  /\ UNCHANGED <<input, taken, inside, out>>

\* swr_convert() or the size of its output is below 0; for the size ret is not.
ResamplingLoopFails ==
  /\ tpc = "loop" /\ taken < Rounds
  /\ \E c \in {0, 1} : OnlyExits(c)

ResamplingDone ==
  /\ tpc = "loop" /\ taken = Rounds
  /\ OnlyExits(0)

ResamplingWorks == ResamplingOpen \/ ResamplingConvert \/ ResamplingDone

ResamplingFails ==
  ResamplingOpenFails \/ ResamplingNoMemory \/ ResamplingLoopFails

ResamplingSpec == ResamplingInit /\ [][ResamplingWorks \/ ResamplingFails]_toolVars

ScalingInit == ToolInit("scaling", {<<>>}, {"rgb"}, {<<>>})

\* Without a scaler or pictures main() goes to end and frees src_data[0] and
\* dst_data[0], which are not initialised.
ScalingOpenFails == OpenFailure({1, Crashed})

ScalingOpen == OpenSucceeds

ScalePicture ==
  /\ tpc = "loop" /\ taken < Pictures
  /\ out' = [out EXCEPT !["rgb"] = Append(@, taken)]
  /\ Reads /\ GoesTo("loop")
  /\ UNCHANGED <<input, inside, own>>

\* ret is still the size of the picture.
ScalingDone ==
  /\ tpc = "loop" /\ taken = Pictures
  /\ OnlyExits(0)

ScalingWorks == ScalingOpen \/ ScalePicture \/ ScalingDone

-----------------------------------------------------------------------------

\* "Buffering is avoided" (3-12-resampling_audio.c:149): over all rounds the array is
\* as large as swr_convert() is told, and no more stays in the resampler than its
\* filter looks ahead and one sample that is not complete.
ResamplerKeepsUp ==
  program = "resampling" /\ tpc = "loop" =>
    /\ own.offered <= own.allocated
    /\ own.backlog < Taps * Src + Dst

=============================================================================
