------------------------------ MODULE MCSmmuV3 ------------------------------
(* Instances of SmmuV3. No device has stream id 0 in the passing run.      *)
EXTENDS SmmuV3

SmmuOf(sids, ssids, two) ==
  [v3 |-> TRUE, two_level |-> two, s1p |-> TRUE, s2p |-> TRUE, hyp |-> TRUE,
   sid_bits |-> sids, ssid_bits |-> ssids, cd2l |-> TRUE]

Map(s, sid, ssid, bits, stage, p) ==
  [smmu |-> s, sid |-> sid, ssid |-> ssid, ssid_bits |-> bits, stage |-> stage, pgt |-> p]
Unmap(s, sid) == [smmu |-> s, sid |-> sid]

Case(calls, hw, maps, unmaps, states, stops, prompt) ==
  [calls |-> calls, hw |-> hw, maps |-> maps, unmaps |-> unmaps, states |-> states, stops |-> stops, prompt |-> prompt]

\* Stream 1 mapped in both stages, remapped, unmapped, switched off and on.
\* Stream 2 is out of range.
OneStream == Case(5, <<SmmuOf(1, 0, FALSE)>>,
  {Map(1, 1, 0, 0, "S1", "A"), Map(1, 1, 0, 0, "S1", "B"), Map(1, 1, 0, 0, "S2", "A"), Map(1, 2, 0, 0, "S1", "A")},
  {Unmap(1, 1), Unmap(1, 2)}, BOOLEAN, TRUE, TRUE)

\* Two streams of one SMMU.
TwoStreams == Case(5, <<[SmmuOf(2, 0, FALSE) EXCEPT !.s2p = FALSE, !.hyp = FALSE]>>,
  {Map(1, 1, 0, 0, "S1", "A"), Map(1, 2, 0, 0, "S1", "B"), Map(1, 2, 0, 0, "S2", "A")},
  {Unmap(1, 1), Unmap(1, 2)}, {}, FALSE, TRUE)

\* Two substreams of one stream; substream 2 is out of range.
Substreams == Case(4, <<SmmuOf(1, 1, FALSE)>>,
  {Map(1, 1, 0, 1, "S1", "A"), Map(1, 1, 1, 1, "S1", "B"), Map(1, 1, 2, 1, "S1", "A"), Map(1, 1, 0, 1, "S2", "B")},
  {Unmap(1, 1)}, {}, FALSE, TRUE)

\* Two SMMUs, and a third that is not a v3.
TwoSmmus == Case(4, <<SmmuOf(1, 0, FALSE), [SmmuOf(1, 0, FALSE) EXCEPT !.v3 = FALSE], SmmuOf(2, 0, FALSE)>>,
  {Map(1, 1, 0, 0, "S1", "A"), Map(2, 1, 0, 0, "S2", "A"), Map(3, 2, 0, 0, "S1", "B")},
  {Unmap(3, 2)}, {}, FALSE, TRUE)

\* A stream table in two levels, of two blocks.
TwoLevel == Case(3, <<SmmuOf(2, 0, TRUE)>>,
  {Map(1, 1, 0, 0, "S1", "A"), Map(1, 2, 0, 0, "S2", "B"), Map(1, 3, 0, 0, "S1", "A")},
  {}, {}, FALSE, TRUE)

\* The SMMU may be late with every answer.
Late == [OneStream EXCEPT !.prompt = FALSE, !.calls = 3]

MCScenarios == {OneStream, TwoStreams, Substreams, TwoSmmus, TwoLevel, Late}

\* A stream table in two levels, and a stream that is unmapped.
MCUnmap == {[TwoLevel EXCEPT !.unmaps = {Unmap(1, 1), Unmap(1, 2)}]}
=============================================================================
