------------------------------ MODULE MCLogVec ------------------------------
(* A LogVec of raft::Entry, encoded as in proto/raft.proto.  With the blank
   entry, which takes no bytes, one of one field and one of two. *)
EXTENDS LogVec

W == INSTANCE Wire WITH Two32 <- 4

E(term, value) ==
  [W!Cleared(W!Entry) EXCEPT !.val["term"] = term, !.val["value"] = value]
ThreeEntries == {E(0, 0), E(1, 0), E(2, 1)}

Encode(e) == W!SerializeToString(W!Entry, e)
Decode(bytes) == W!ParseFromArray(W!Entry, bytes)
Merged(d, e) == W!MergeFrom(W!Entry, d, e)

\* What LogVecProofs asks of an encoding, for as many entries as two torn
\* appends can pile up behind one.
One == {Encode(e) : e \in ThreeEntries}
Two == {b \o c : b, c \in One}
ASSUME EncodingAssumption ==
  \A b \in One \cup Two, e \in ThreeEntries :
    /\ Decode(b) # Unreadable
    /\ Decode(b \o Encode(e)) = Merged(Decode(b), e)
=============================================================================
