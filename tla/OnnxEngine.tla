----------------------------- MODULE OnnxEngine -----------------------------
(***************************************************************************)
(* The scoring of a payload (src/inference/onnx_engine.cpp). A score is a  *)
(* percentage. The network itself is external: run_model_inference may     *)
(* return any score of ModelScores, or NoScore when the model is absent,   *)
(* throws, or computes a NaN (which fails the test score >= 0 as well).    *)
(***************************************************************************)
EXTENDS Integers, Sequences

CONSTANTS
    ModelScores,  \* what the network may compute
    MAX_LEN       \* tokens of the network's input: 512 in the code

ASSUME ModelScoresAssumption == ModelScores \subseteq 0..100
ASSUME MaxLenAssumption == MAX_LEN \in Nat /\ MAX_LEN > 2

NoScore       == -1
HeuristicHit  == 99
HeuristicMiss == 5

Score == ModelScores \cup {HeuristicHit, HeuristicMiss}

\* The special tokens; a byte is a token from 3 on, here its place in the payload.
PAD == 0
CLS == 1
SEP == 2
ByteToken(i) == i + 3

\* Seeded fault for Fill: no room is kept for the special tokens.
FillToTheEnd(size) == IF size < MAX_LEN THEN size ELSE MAX_LEN

\* How many bytes of the payload the network sees.
Fill(size) == IF size < MAX_LEN - 2 THEN size ELSE MAX_LEN - 2

\* tokenize: the start token, the first bytes of the payload, the separator,
\* and padding up to MAX_LEN; the mask covers all but the padding.
Tokenize(size) ==
    LET fill == Fill(size) IN
    [ids  |-> [p \in 0..(MAX_LEN - 1) |->
                  CASE p = 0 -> CLS
                    [] p \in 1..fill -> ByteToken(p - 1)
                    [] p = fill + 1 -> SEP
                    [] p > fill + 1 -> PAD],
     mask |-> [p \in 0..(MAX_LEN - 1) |-> IF p <= fill + 1 THEN 1 ELSE 0]]

\* What run_model_inference may return.
ModelResults(model_loaded) ==
    IF model_loaded THEN ModelScores \cup {NoScore} ELSE {NoScore}

\* Seeded fault for Heuristic: only the first frame of the payload is searched.
HeuristicFirstFrame(marks) == IF marks[1] THEN HeuristicHit ELSE HeuristicMiss

\* heuristic_score: marks[i] says whether frame i of the payload holds one of
\* the signatures. A signature cannot straddle two frames: each frame enters
\* the buffer with its Ethernet, IP and TCP headers in front.
Heuristic(marks) ==
    IF \E i \in DOMAIN marks : marks[i] THEN HeuristicHit ELSE HeuristicMiss

\* Seeded fault for Infer: a failed inference is not replaced.
InferNoFallback(result, marks) == result

\* infer: the model's score if there is one, the heuristic's otherwise.
Infer(result, marks) == IF result >= 0 THEN result ELSE Heuristic(marks)
=============================================================================
