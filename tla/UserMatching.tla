---------------------------- MODULE UserMatching ----------------------------
(***************************************************************************)
(* UserResolutionService.resolve_user: which outcome a call of UserMapping *)
(* is given for one of its users.  The keys are tried in their order of    *)
(* priority against a list of candidates; the first key that any candidate *)
(* shares decides.                                                         *)
(*                                                                         *)
(* A profile gives each key a text, JSON null, or nothing at all.  A text  *)
(* stands for what strip and lower leave to tell apart, so that the empty  *)
(* text and a missing key are the same, and null is str(None): a text like *)
(* another.                                                                *)
(***************************************************************************)
EXTENDS UserMapping

CONSTANTS People,    \* users of the target portal that a list may name: the
                     \* Targets of UserMapping, or more of them
          Texts,     \* what a key may hold, stripped and in lower case
          NullText,  \* the text "none", which null becomes
          Null,      \* the key is null
          Missing    \* the key is missing or blank

ASSUME MatchingAssumption ==
  /\ Targets \subseteq People
  /\ NullText \in Texts
  /\ Null \notin Texts
  /\ Missing \notin Texts \cup {Null}

matching_priority == <<"xml_id", "email", "login">>

Keys == DOMAIN matching_priority

Profile == [Keys -> Texts \cup {Null, Missing}]

Candidate == [id : People, has : Profile]

\* str(user.get(key, "")).strip().lower()
Normal(profile, k) == IF profile[k] = Null THEN NullText ELSE profile[k]

\* The places in the list of the candidates that share a key the user has.
Matches(user, candidates, k) ==
  {i \in DOMAIN candidates :
     /\ Normal(user, k) # Missing
     /\ Normal(candidates[i].has, k) = Normal(user, k)}

One(S) == \E i \in S : S = {i}

\* Faulty, for the mutation runs: a key shared by several is passed over.
ResolveSkipsTies(user, candidates) ==
  LET Try[k \in 1..Len(matching_priority) + 1] ==
        IF k \notin Keys
        THEN IF \E l \in Keys : Matches(user, candidates, l) # {} THEN Several
             ELSE Nobody
        ELSE LET found == Matches(user, candidates, k)
             IN IF One(found)
                THEN Match(candidates[CHOOSE i \in found : TRUE].id)
                ELSE Try[k + 1]
  IN Try[1]

Resolve(user, candidates) ==
  LET Try[k \in 1..Len(matching_priority) + 1] ==
        IF k \notin Keys THEN Nobody
        ELSE LET found == Matches(user, candidates, k)
             IN IF found = {} THEN Try[k + 1]
                ELSE IF One(found)
                     THEN Match(candidates[CHOOSE i \in found : TRUE].id)
                     ELSE Several
  IN Try[1]
-----------------------------------------------------------------------------
(* Properties *)

\* Two profiles agree in a key: both hold the same text, or null; and the text
\* "none" agrees with null.
Agree(p, q, k) ==
  \/ p[k] \in Texts /\ q[k] = p[k]
  \/ {p[k], q[k]} \subseteq {Null, NullText}

CandidateLists(n) == UNION {[1..m -> Candidate] : m \in 0..n}

\* A user is bound without a review only on evidence nothing contradicts: the
\* target is the only one of the list that agrees with the user in some key,
\* and nobody agrees in a stronger one.  A user is called unmatched only if
\* nobody agrees in any key.  Whoever else is in the list and in whatever
\* order, it makes no difference.
BoundOnEvidence(n) ==
  \A user \in Profile, candidates \in CandidateLists(n) :
    LET places == DOMAIN candidates
        Sole(i) ==
          \E k \in Keys :
            /\ Agree(user, candidates[i].has, k)
            /\ \A j \in places \ {i} : ~Agree(user, candidates[j].has, k)
            /\ \A l \in 1..k - 1, j \in places : ~Agree(user, candidates[j].has, l)
        Strangers ==
          \A k \in Keys, j \in places : ~Agree(user, candidates[j].has, k)
        outcome == Resolve(user, candidates)
    IN /\ outcome = Nobody <=> Strangers
       /\ outcome.kind = "match" <=> \E i \in places : Sole(i)
       /\ \A i \in places : Sole(i) => outcome = Match(candidates[i].id)
==============================================================================
