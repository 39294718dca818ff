------------------------------ MODULE KeyPrefix ------------------------------
(***************************************************************************)
(* The texts of API keys (thaumiel-auth/src/api_key.rs): the prefix that   *)
(* is stored with a key, and the prefix under which a presented key is     *)
(* looked up.                                                              *)
(*                                                                         *)
(* Abstracted: a text is a sequence of letters, "thm" being one of them.   *)
(***************************************************************************)
LOCAL INSTANCE Naturals
LOCAL INSTANCE Sequences

CONSTANTS
    Secret,         \* the random part of a key, without underscores
    PrefixLen,      \* how much of it goes into the prefix
    NoPrefix

Underscore == "_"

\* generate_api_key, for an environment tag.
Plaintext(tag) == <<"thm", Underscore>> \o tag \o <<Underscore>> \o Secret

Prefix(tag) == <<"thm", Underscore>> \o tag \o <<Underscore>> \o SubSeq(Secret, 1, PrefixLen)

\* Where the third part of splitn(3, '_') begins, if there is one.
ThirdPart(text) ==
    {n \in 2 .. Len(text) + 1 :
        /\ text[n - 1] = Underscore
        /\ \E m \in 1 .. n - 2 :
            \A i \in 1 .. n - 2 : text[i] = Underscore <=> i = m}

PrefixOf(text) ==
    IF \E n \in ThirdPart(text) : Len(text) - n + 1 >= PrefixLen
    THEN SubSeq(text, 1, (CHOOSE n \in ThirdPart(text) : TRUE) + PrefixLen - 1)
    ELSE NoPrefix

\* A presented key is looked up under the prefix it was stored under.
FindsItself(tag) == PrefixOf(Plaintext(tag)) = Prefix(tag)
=============================================================================
