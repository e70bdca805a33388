---- MODULE Archive ----
(***************************************************************************)
(* nmbench/artifacts.py: the bodies kept.  A key is an engine and a        *)
(* target; of each, the archive counts the places of the sample of served  *)
(* pages it has given away, and how many of those pages were written.      *)
(***************************************************************************)
EXTENDS Integers

CONSTANT SampleOk   \* ArtifactStore: sample_ok

ASSUME SampleAssumption == SampleOk \in Nat

ALWAYS_KEEP == {"captcha", "block", "throttle", "empty", "consent", "error"}
NoBodies(keys) == [key \in keys |-> [given |-> 0, written |-> 0]]

\* wanted: what was not served is evidence, what was served is a sample.
Wanted(archive, verdict, key) ==
  verdict \in ALWAYS_KEEP \/ archive[key].given < SampleOk

\* save: a place of the sample is taken before the body is written.
Saved(archive, verdict, key, fits) ==
  IF verdict \in ALWAYS_KEEP \/ ~Wanted(archive, verdict, key) THEN archive
  ELSE [archive EXCEPT ![key] = [given |-> @.given + 1,
                                 written |-> IF fits THEN @.written + 1 ELSE @.written]]
====
