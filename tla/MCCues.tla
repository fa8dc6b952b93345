------------------------------- MODULE MCCues -------------------------------
(***************************************************************************)
(* The inputs TLC runs the split stage on.                                 *)
(***************************************************************************)
EXTENDS SplitStage

Token(i, t, s, e) == Piece(<<[id |-> i, text |-> t]>>, s, e)

(* Tokens of the given texts, durations and silences, one after another. *)
Timed(texts, durations, gaps) ==
    LET start[i \in DOMAIN texts] ==
            IF i = 1 THEN 2 ELSE start[i - 1] + durations[i - 1] + gaps[i - 1]
    IN <<>> \o [i \in DOMAIN texts |-> Token(i, texts[i], start[i], start[i] + durations[i])]

Chunk(pieces, s, e, usable) == [pieces |-> pieces, start |-> s, end |-> e,
                                usable |-> usable, known |-> TRUE]
One(pieces) == <<Chunk(pieces, 0, Last(pieces).end + 1, TRUE)>>
Plain(chunks) == [chunks |-> chunks, analyser |-> NoAnalyser, voice |-> <<>>, llm |-> FALSE]

(* Three words of every kind the passes join or keep apart. *)
Joins == {Plain(One(Timed(t, d, g))) :
            t \in {"word", "yes", "mm", "uhm", "tail", "head"} \X {"word", "yes", "mm", "uhm", "tail", "head"}
                   \X {"word", "yes", "tail"},
            d \in [1..3 -> {1, 4}], g \in {0, 2, 6} \X {0, 2}}

(* Five words to be cut, with and without phrases. *)
Cut == {[Plain(One(Timed(t, [i \in 1..5 |-> 1], g))) EXCEPT !.analyser = a] :
            t \in {[i \in 1..5 |-> "word"], [[i \in 1..5 |-> "word"] EXCEPT ![3] = "join"],
                   [[i \in 1..5 |-> "word"] EXCEPT ![2] = "comma"]},
            g \in [1..4 -> {0, 1, 4, 6}], a \in {NoAnalyser, {}, {2, 4}, {1}}}

(* Two chunks that may overlap, the second without a usable alignment. *)
Fallback == {Plain(<<Chunk(<<Token(1, a, 0, 2), Token(2, b, 2, 2)>>, 0, 4, u),
                     Chunk(<<Token(3, c, s, s + 1), Token(4, d, s + 1, s + 2), Token(5, "word", s + 3, s + 4)>>,
                           s, e, FALSE)>>) :
             u \in BOOLEAN, a \in {"word", "yes"}, b \in {"word", "stop"},
             c \in {"word", "stop", "yes"}, d \in {"word", "stop", "self"}, s \in 3..6, e \in {11, 16}}

(* What an aligner may write: pieces without a duration or out of bounds. *)
Raw == {Plain(<<Chunk(<<Token(1, "word", s[1], s[2]), Token(2, "word", s[3], s[4]), Token(3, "mm", s[5], s[6])>>,
                      2, e, TRUE),
                Chunk(<<Token(4, "word", 4, 4), Token(5, "word", 4, 6)>>, 3, 6, TRUE)>>) :
          s \in {s \in [1..6 -> {0, 3, 6}] : s[1] <= s[3] /\ s[3] <= s[5]}, e \in {3, 6}}

(* Voices and an LLM; the second token may hold two words. *)
TwoWords(pieces, a, b) ==
    [pieces EXCEPT ![2].words = <<[id |-> 2, text |-> a], [id |-> 5, text |-> b]>>]
VoicesOf4 == {v \in [1..5 -> {"A", "B"}] : v[1] = "A" /\ v[5] = v[2]}
Voiced == {[Plain(One(p)) EXCEPT !.voice = v, !.llm = l] :
            p \in UNION {{Timed(t, d, g), TwoWords(Timed(t, d, g), "stop", "word")} :
                          t \in {<<"word", "word", "word", "word">>, <<"yes", "word", "word", "tail">>},
                          d \in {d \in [1..4 -> {1, 4}] : d[4] = 1}, g \in [1..3 -> {0, 2}]},
            v \in {<<>>} \cup VoicesOf4, l \in BOOLEAN}

MCInputs == {Joins, Cut, Fallback, Raw, Voiced}
=============================================================================
