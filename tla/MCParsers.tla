----------------------------- MODULE MCParsers ------------------------------
(***************************************************************************)
(* The parsers on bounded inputs.  A behaviour types a text symbol by      *)
(* symbol; references and challenges are also composed from their parts.   *)
(***************************************************************************)
EXTENDS ReferenceParser, AuthChallenge, TLC

CONSTANT MaxLen       \* of the texts that are typed, for each kind

MCHashBytes == [sha256 |-> 1, sha512 |-> 2]
MCMaxLen    == [reference |-> 6, digest |-> 6]
Alphabet == [reference |-> {"a", "sha256", ".", ":", "/", "@"},
             digest    |-> {"0", "1", "a", "A", "+", "g"}]
Start == [reference |-> {<<>>},
          digest    |-> {<<"sha256", ":">>, <<"sha512", ":">>, <<"md5", ":">>}]

\* Bytes whose digits are in the alphabet, and one more.
Bytes == {16 * x + y : x, y \in {0, 1, 10}} \union {255}

\* References as they are documented, and what each part should be.
Registries == {<<>>, <<"a", ".", "a">>, <<"a", ".", "a", ":", "a">>}
Repositories == {<<"a">>, <<"a", "/", "a">>, <<"a", "/", "a", "/", "a">>}
Tags == {None, Some(<<"a">>), Some(<<"a", ".", "a">>)}
Digests == {None, Some(<<"sha256", ":", "a", "a">>)}
Composed == [registry : Registries, repository : Repositories, tag : Tags, digest : Digests]

\* Challenges: up to three parameters, and a value with separators in it.
Params == {<<k, v>> : k \in {Realm, <<"service">>, <<"scope">>},
                      v \in {<<"x">>, <<"y", ",", "z", "=", " ">>}}
Challenges == UNION {[1..n -> Params] : n \in 0..3}

\* All of them are texts.
MCSymbol == UNION {Alphabet[k] : k \in DOMAIN Alphabet}
            \union {"sha512", "md5", "registry-1", "docker", "io", "library", "latest"}
            \union {"=", ",", Blank, Quote, "Bearer", "realm", "service", "scope", "x", "y", "z"}

ASSUME InputSymbols ==
    /\ \A k \in DOMAIN Alphabet : Alphabet[k] \subseteq Symbol /\ Start[k] \subseteq Seq(Symbol)
    /\ Registries \union Repositories \subseteq Seq(Symbol)
    /\ \A t \in Tags \union Digests : t = None \/ (t = Some(t[1]) /\ t[1] \in Seq(Symbol))
    /\ Params \subseteq Seq(Symbol) \X Seq(Symbol)

VARIABLES kind, text, parts
vars == <<kind, text, parts>>

Init == \/ kind \in {"reference", "digest"} /\ text \in Start[kind] /\ parts = <<>>
        \/ kind = "composed" /\ parts \in Composed /\ text = ComposedText(parts)
        \/ kind = "challenge" /\ parts \in Challenges /\ text \in {<<>>, <<Blank>>}

Type == /\ kind \in DOMAIN Alphabet
        /\ Len(text) < MaxLen[kind]
        /\ \E c \in Alphabet[kind] : text' = Append(text, c)
        /\ UNCHANGED <<kind, parts>>

Spec == Init /\ [][Type]_vars
-----------------------------------------------------------------------------
\* Digest::try_from and check_hash: an accepted digest is matched by exactly the
\* bytes that it spells.
DigestsAreExact ==
    kind = "digest" => \A n \in {1, 2} : \A out \in [1..n -> Bytes] : DigestIsExact(text, out)

\* Reference::try_from: the defaults may be written down or left out, in any text.
ReferencesAreStable == kind \in {"reference", "composed"} => DefaultsAreNeutral(text)

\* Reference::try_from, "close to what docker pull does": the parts of a reference
\* that is put together as documented are found again.
PartsAreFound == kind = "composed" /\ Documented(parts) => PartsFound(parts)

\* build_auth_request: no parameter of a challenge with one realm is lost, wherever
\* realm is.
ChallengesAreSent == kind = "challenge" => ChallengeIsSent(parts, text)
=============================================================================
