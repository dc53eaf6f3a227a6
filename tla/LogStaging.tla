----------------------------- MODULE LogStaging -----------------------------
(***************************************************************************)
(* The Log staging stream of one pickup generation: the state machine of   *)
(* proto/src/coord/log_stream.rs and the journal local_log_staging.rs      *)
(* keeps of it.  A record stands for its sequence number (its bytes and    *)
(* digest are a function of it), a gap for the sequence numbers it covers. *)
(* A journal is a sequence of frames; of a "torn" or "garbled" frame only  *)
(* a prefix of the bytes reached the file.  They differ once other frames  *)
(* follow: the length a torn one declares reaches past the end of the      *)
(* file, the bytes that complete a garbled one do not decode.              *)
(***************************************************************************)
EXTENDS Integers, Sequences, FiniteSets

Accepted(n) == [kind |-> "accepted", seqs |-> {n}, how |-> "none"]
Gap(g) == [kind |-> "gap", seqs |-> g, how |-> "none"]
Terminal(h) == [kind |-> "terminal", seqs |-> {}, how |-> h]
Seal(S) == [kind |-> "seal", seqs |-> S, how |-> "none"]
Torn == [kind |-> "torn", seqs |-> {}, how |-> "none"]
Garbled == [kind |-> "garbled", seqs |-> {}, how |-> "none"]
Absent == [kind |-> "absent", seqs |-> {}, how |-> "none"]

NewStream == [accepted |-> {}, gaps |-> {}, terminal |-> "none", seal |-> "none"]

Covered(st) == st.accepted \cup UNION st.gaps

(* The frontier is the end of the contiguous range from zero, -1 for none. *)
committed_frontier(st) ==
  LET ends == {n \in {-1} \cup Covered(st) : \A m \in 0 .. n : m \in Covered(st)}
  IN  CHOOSE n \in ends : \A m \in ends : m <= n

frontier_has_hole(st) == \E n \in Covered(st) : n > committed_frontier(st)

(* The three transitions: the state after, or an error.                     *)
Bad == [ok |-> FALSE, st |-> NewStream]
Good(st) == [ok |-> TRUE, st |-> st]

apply_accepted(st, n) ==
  IF st.terminal # "none" \/ n \in UNION st.gaps THEN Bad
  ELSE Good([st EXCEPT !.accepted = @ \cup {n}])

apply_gap(st, g) ==
  IF st.terminal # "none" \/ (g \notin st.gaps /\ g \cap Covered(st) # {}) THEN Bad
  ELSE Good([st EXCEPT !.gaps = @ \cup {g}])

apply_terminal(st, h) ==
  IF \/ st.terminal \notin {"none", h}
     \/ st.terminal = "none" /\ h = "eos" /\ frontier_has_hole(st)
  THEN Bad ELSE Good([st EXCEPT !.terminal = h])

(* What reopening keeps of a journal: the frames before the first broken one. *)
(* Nothing behind that one can be read, and unless the end of the file cuts   *)
(* it short reopening fails.                                                  *)
Broken(frames) == {i \in DOMAIN frames : frames[i] \in {Torn, Garbled}}
FirstBroken(frames) == CHOOSE i \in Broken(frames) : \A j \in Broken(frames) : i <= j

Readable(frames) ==
  IF Broken(frames) = {} THEN frames ELSE SubSeq(frames, 1, FirstBroken(frames) - 1)

Decodes(frames) ==
  \/ Broken(frames) = {} \/ frames[FirstBroken(frames)] = Torn
  \/ FirstBroken(frames) = Len(frames)

(* Replaying the frames one by one fails on a record a gap covers and on gaps *)
(* that overlap, whichever comes first, on anything but a seal behind the     *)
(* terminal record and on a seal that is not of the accepted set or not last. *)
recover(frames) ==
  LET f == Readable(frames)
      Of(k) == {i \in DOMAIN f : f[i].kind = k}
      st == [accepted |-> UNION {f[i].seqs : i \in Of("accepted")},
             gaps     |-> {f[i].seqs : i \in Of("gap")},
             terminal |-> IF Of("terminal") = {} THEN "none"
                          ELSE f[CHOOSE i \in Of("terminal") : TRUE].how,
             seal     |-> IF Of("seal") = {} THEN "none" ELSE "sealed"]
      ok == /\ Decodes(frames)
            /\ st.accepted \cap UNION st.gaps = {}
            /\ \A g, h \in st.gaps : g = h \/ g \cap h = {}
            /\ \A i \in Of("terminal") : i + 1 .. Len(f) \subseteq Of("seal")
            /\ \A i \in Of("seal") : /\ i = Len(f) /\ st.terminal # "none"
                                    /\ f[i].seqs = st.accepted
            /\ st.terminal = "eos" => ~frontier_has_hole(st)
  IN  IF ok THEN Good(st) ELSE Bad
=============================================================================
