---------------------------- MODULE PatternFiles ----------------------------
(***************************************************************************)
(* What PatternStore makes of the .nfp files, and how it compares. The     *)
(* archive holds many shapes of file; each gives a function from ids of    *)
(* activations to amounts, here in hundredths.                             *)
(*                                                                         *)
(* A file is a piece of JSON: [tag |-> "object", of |-> function from keys *)
(* to JSON], [tag |-> "list", of |-> sequence of JSON], [tag |-> "number", *)
(* of |-> integer] or [tag |-> "text"]; or nothing when it cannot be read. *)
(* A key is <<"number", n>> when it looks like a number, else a name.      *)
(***************************************************************************)
EXTENDS Integers, Sequences, FiniteSets, FiniteSetsExt, SequencesExt, TLC

LOCAL Is(json, tag) == json.tag = tag
LOCAL Has(json, key) == <<"name", key>> \in DOMAIN json.of
LOCAL At(json, key) == json.of[<<"name", key>>]

NoValues == [id \in {} |-> 0]

\* Mutant: bytes are not scaled.
Amount_Raw(json) == IF ~Is(json, "number") \/ json.of < 0 THEN 0 ELSE 100 * json.of

(* _as_activation: above 1 it is a byte, so 1 is the strongest activation  *)
(* and 2 one of the weakest.                                               *)
Amount(json) ==
    IF ~Is(json, "number") \/ json.of < 0 THEN 0
    ELSE IF json.of <= 1 THEN 100 * json.of
    ELSE Min({100, (100 * json.of) \div 255})

(* _normalize_activation_id: what looks like a number is a frequency.      *)
Normalised(key) == IF key[1] = "number" THEN <<"aud", key[2]>> ELSE key

LOCAL Merged(parts) == FoldLeft(LAMBDA values, part : part @@ values, NoValues, parts)
LOCAL Strongest(parts) ==
    [id \in UNION {DOMAIN parts[i] : i \in DOMAIN parts} |->
        Max({parts[i][id] : i \in {j \in DOMAIN parts : id \in DOMAIN parts[j]}})]

Named(object, Id(_)) ==
    Merged([i \in 1 .. Cardinality(DOMAIN object.of) |->
              LET key == SetToSeq(DOMAIN object.of)[i] IN Id(key) :> Amount(object.of[key])])

LOCAL Pair(json) == Is(json, "list") /\ Len(json.of) = 2 /\ json.of[1].tag \in {"number", "text"}
LOCAL KeyOf(json) == IF Is(json, "number") THEN <<"number", json.of>> ELSE <<"name", "text">>

(* _parse_nfp_blob: a list of numbers is one activation, their mean, and   *)
(* named by its place; this mean is not bounded.                           *)
RECURSIVE Blob(_, _, _)
Blob(json, pattern, path) ==
    IF Is(json, "object") THEN Named(json, Normalised)
    ELSE IF ~Is(json, "list") THEN NoValues
    ELSE IF json.of # <<>> /\ (\A i \in DOMAIN json.of : Is(json.of[i], "number"))
    THEN <<"nfp", pattern, path>> :>
            ((100 * FoldLeft(LAMBDA sum, x : sum + x.of, 0, json.of)) \div (255 * Len(json.of)))
    ELSE Merged([i \in DOMAIN json.of |-> Blob(json.of[i], pattern, Append(path, i - 1))])

(* _parse_activations.                                                     *)
Activations(json, pattern) ==
    LET Part(i) == CASE Is(json.of[i], "object") -> Named(json.of[i], Normalised)
                     [] Pair(json.of[i]) -> Normalised(KeyOf(json.of[i].of[1])) :> Amount(json.of[i].of[2])
                     [] OTHER -> Blob(json.of[i], <<pattern, i - 1>>, <<>>)
    IN  CASE Is(json, "object") -> Named(json, Normalised)
          [] Is(json, "list") -> Merged([i \in DOMAIN json.of |-> Part(i)])
          [] OTHER -> NoValues

(* _parse_image_matrix: rows of pixels, each a value or its channels.      *)
Image(matrix) ==
    LET Pixel(x, y, json) ==
            CASE Is(json, "object") -> Named(json, LAMBDA key : <<"img", x, y, key[2]>>)
              [] Is(json, "list") ->
                    Merged([i \in 1 .. Min({4, Len(json.of)}) |->
                              <<"img", x, y, <<"r", "g", "b", "m">>[i]>> :> Amount(json.of[i])])
              [] Is(json, "number") -> <<"img", x, y, "v">> :> Amount(json)
              [] OTHER -> NoValues
        Row(y) == LET row == matrix.of[y]
                  IN  IF ~Is(row, "list") THEN NoValues
                      ELSE Merged([x \in DOMAIN row.of |-> Pixel(x - 1, y - 1, row.of[x])])
    IN  IF ~Is(matrix, "list") THEN NoValues ELSE Merged([y \in DOMAIN matrix.of |-> Row(y)])

(* _parse_audio_sequence: bins, named or numbered.                         *)
Audio(sequence) ==
    LET Bin(i) ==
            LET json == sequence.of[i]
            IN  CASE Is(json, "object") -> Named(json, LAMBDA key : <<"aud", key[2]>>)
                  [] Is(json, "list") /\ Len(json.of) = 2 ->
                        <<"aud", KeyOf(json.of[1])[2]>> :> Amount(json.of[2])
                  [] Is(json, "number") -> <<"aud", i - 1>> :> Amount(json)
                  [] OTHER -> NoValues
    IN  IF ~Is(sequence, "list") THEN NoValues
        ELSE Merged([i \in DOMAIN sequence.of |-> Bin(i)])

Sensor(json) ==
    IF Is(json, "object") THEN Named(json, LAMBDA key : <<"sen", key[2]>>) ELSE NoValues

(* _extract_activation_values: the first shape that the file has.          *)
RECURSIVE ActivationValues(_, _)
ActivationValues(json, pattern) ==
    IF ~Is(json, "object") THEN Blob(json, pattern, <<>>)
    ELSE IF Has(json, "activations") THEN Activations(At(json, "activations"), pattern)
    ELSE IF Has(json, "img") THEN Image(At(json, "img"))
    ELSE IF Has(json, "aud") THEN Audio(At(json, "aud"))
    ELSE IF Has(json, "sen") THEN Sensor(At(json, "sen"))
    ELSE IF Has(json, "frames") /\ Is(At(json, "frames"), "list")
         THEN LET frames == At(json, "frames").of
              IN  Strongest([i \in DOMAIN frames |-> ActivationValues(frames[i], <<pattern, i - 1>>)])
    ELSE IF ~Has(json, "nfp") THEN Activations(json, pattern)
    ELSE IF Has(json, "type") /\ At(json, "type").of = 1 THEN Image(At(json, "nfp"))
    ELSE IF Has(json, "type") /\ At(json, "type").of = 2 THEN Audio(At(json, "nfp"))
    ELSE Blob(At(json, "nfp"), pattern, <<>>)

(* load: a file that cannot be read is passed over.                        *)
Patterns(files, unreadable) ==
    [p \in {q \in DOMAIN files : files[q] # unreadable} |-> ActivationValues(files[p], p)]

-----------------------------------------------------------------------------
(* _window_activation_values: the strongest of each over the frames.       *)
WindowValues(frames) == Strongest(frames)

(* _similarity, in thousandths.                                            *)
Similarity(stored, input) ==
    LET mine == {a \in DOMAIN stored : stored[a] > 0}
        theirs == {a \in DOMAIN input : input[a] > 0}
        both == mine \cap theirs
        shape == Max({(1000 * Cardinality(both)) \div Cardinality(mine \cup theirs),
                      (1000 * Cardinality(both)) \div Cardinality(theirs)})
        value == FoldSet(LAMBDA a, sum : sum + (1000 * Min({stored[a], input[a]}))
                                              \div Max({stored[a], input[a]}), 0, both)
    IN  IF both = {} THEN 0 ELSE (shape * value) \div (1000 * Cardinality(both))

(* find_similar_to_frame and find_similar_to_window: the patterns like the *)
(* values, the most alike first.                                           *)
SimilarTo(patterns, values, threshold) ==
    LET Like(p) == Similarity(patterns[p], values)
    IN  SetToSortSeq({p \in DOMAIN patterns : Like(p) >= threshold},
                     LAMBDA p, q : Like(p) > Like(q))
=============================================================================
