--------------------------- MODULE MCSubscription ---------------------------
EXTENDS Subscription

(* One good comparison, a pair of good ones, a repeated size with a good   *)
(* one, an undecodable text, a text over its limit, and one too many.      *)
Short == Memcmp("Bytes", 0, 8)
MCFilterSets == {{Short}, {Short, DataSize(165)}, {DataSize(165), DataSize(82)},
                 {Memcmp("Base58", 175, -1)}, {Memcmp("Base64", 173, 128)}}

(* Up to three slices over four offsets. *)
MCSlice == [offset : 0 .. 3, length : 0 .. 2]
MCSliceLists == {<<>>} \cup {<<a>> : a \in MCSlice} \cup {<<a, b>> : a, b \in MCSlice}
                  \cup {<<a, b, c>> : a, b, c \in MCSlice}
=============================================================================
