----------------------- MODULE MCAttachmentScheduler -----------------------
(***************************************************************************)
(* Jobs for the runs of AttachmentScheduler.                               *)
(***************************************************************************)
EXTENDS AttachmentScheduler

Files(sizes) == [sizes |-> sizes, paced |-> TRUE]
Doubling == [a \in 1 .. 2 |-> 2 ^ a]
VoiceNote == [sizes |-> <<1>>, paced |-> FALSE]

(* A reply with two batches of files beside one with a single batch.       *)
MixedJobs == [s1 |-> Files(<<2, 1>>), s2 |-> Files(<<2>>)]
MixedSenders == DOMAIN MixedJobs

(* A reply of one full batch beside a voice note.                          *)
TwoJobs == [s1 |-> Files(<<2>>), s2 |-> VoiceNote]
TwoSenders == DOMAIN TwoJobs
=============================================================================
