------------------------------ MODULE VoiceDialog ------------------------------
(***************************************************************************)
(* Asking Alexa for the stock of a product in a warehouse: the bridge, the *)
(* skill and the searches of the API behind it.                            *)
(*                                                                         *)
(* A phrase is a sequence of words without case, accents or punctuation,   *)
(* and so are names and codes.  A turn is one request.  It searches the    *)
(* product, then the warehouse, then reads the balance, and the catalogue  *)
(* may be edited between those reads and between turns; the slots of the   *)
(* intent carry the phrases, not what they were taken for.                 *)
(***************************************************************************)
EXTENDS Naturals, SequencesExt

CONSTANTS
  Article, Depot,  \* the products and the warehouses one may ask for
  Position,        \* their order: of the codes of articles, of the names of depots
  CodeWords,       \* CodeWords[i]: the words of the code of an article or a depot
  NamesOf,         \* NamesOf[i]: the names an article or a depot may have
  Phrases,         \* Phrases[slot]: what somebody may say of the product, or the place
  Beginning,       \* the catalogues there may be at first
  CandidateLimit,  \* VOICE_CANDIDATE_LIMIT
  Proposed,        \* candidates the gateway returns
  MaxRenames       \* the bound on edits of the catalogue

Item == Article \cup Depot

ASSUME VoiceAssumption ==
  /\ IsFiniteSet(Article)
  /\ Position \in [Item -> Nat] /\ IsInjective(Position)
  /\ Phrases.product \cup Phrases.place \subseteq Seq(STRING) \ {<<>>}
  /\ Proposed \in Nat /\ CandidateLimit \in Nat /\ MaxRenames \in Nat
  /\ 1 < Proposed /\ Proposed <= CandidateLimit

VARIABLES
  catalogue, \* catalogue[i]: [name, active] of an article or a depot
  renames,   \* edits so far
  slots,     \* [product, place]: the phrases the intent carries, or Unsaid
  turn,      \* the request under way: [step, product, place]
  reply      \* the last answer of the skill

spoken == <<catalogue, renames, slots, turn, reply>>

-----------------------------------------------------------------------------
(* Phrases.                                                                *)

Repeats(words, n) ==
  /\ Len(words) % n = 0
  /\ \A i \in DOMAIN words : words[i] = words[((i - 1) % n) + 1]

\* A phrase of three words or more that is heard several times counts once.
Collapsed(words) ==
  LET lengths == {n \in 3 .. (Len(words) \div 2) : Repeats(words, n)}
  IN  IF lengths = {} THEN words
      ELSE SubSeq(words, 1, CHOOSE n \in lengths : \A k \in lengths : n <= k)

FinalSize == [ele |-> "l", eme |-> "m", ese |-> "s", equis |-> "x"]

ProductPhrase(words) ==
  LET phrase == Collapsed(words)
  IN  IF Last(phrase) \in DOMAIN FinalSize
      THEN [phrase EXCEPT ![Len(phrase)] = FinalSize[@]] ELSE phrase

PlacePhrase(words) ==
  LET phrase == Collapsed(words)
  IN  IF Len(phrase) > 1 /\ Head(phrase) \in {"almacen", "bodega"}
      THEN Tail(phrase) ELSE phrase

Filler == {"color", "de", "del", "el", "la", "las", "los", "producto", "talla", "un", "una"}

Alias ==
  [amarilla |-> "amarillo", blanca |-> "blanco", negra |-> "negro", roja |-> "rojo",
   ele |-> "l", grande |-> "l", eme |-> "m", mediana |-> "m", mediano |-> "m",
   ese |-> "s", pequena |-> "s", pequeno |-> "s"]

\* "equis ele" and "doble equis ele" are one size each.
Tokens(words) ==
  LET kept == {i \in DOMAIN words : words[i] \notin Filler}
      said == [n \in 1 .. Cardinality(kept) |->
                 words[CHOOSE i \in kept : Cardinality({j \in kept : j <= i}) = n]]
      At(i) == IF i \in DOMAIN said THEN said[i] ELSE "silence"
      EndsInL(i) == At(i) = "equis" /\ At(i + 1) \in {"ele", "l"}
      Double(i) == At(i) = "doble" /\ EndsInL(i + 1)
      Extra(i) == EndsInL(i) /\ ~Double(i - 1)
      Taken(i) == Double(i) \/ Double(i - 1) \/ Double(i - 2) \/ Extra(i) \/ Extra(i - 1)
      Word(i) == IF At(i) \in DOMAIN Alias THEN Alias[At(i)] ELSE At(i)
  IN  {Word(i) : i \in {i \in DOMAIN said : ~Taken(i)}}
        \cup {"xxl" : i \in {i \in DOMAIN said : Double(i)}}
        \cup {"xl" : i \in {i \in DOMAIN said : Extra(i)}}

-----------------------------------------------------------------------------
(* Candidates.                                                             *)

Called(seen, i, phrase) == phrase \in {CodeWords[i], seen[i].name}

Active(seen, items) == {i \in items : seen[i].active}

\* Words of one or two letters are not searched for.
TooShort == {"l", "m", "s", "x", "xl"}

\* searchVoiceCandidates, before it is cut
Findable(seen, phrase) ==
  {p \in Active(seen, Article) :
     (Tokens(phrase) \ TooShort) \cap (Range(CodeWords[p]) \cup Range(seen[p].name)) # {}}

Matches(seen, p, phrase) == Cardinality(Tokens(phrase) \cap Tokens(seen[p].name))

RequiredRounded(n) == IF n <= 2 THEN n ELSE (7 * n) \div 10

\* minimumProductMatches: all of two words, seven of ten.
Required(n) == IF n <= 2 THEN n ELSE (7 * n + 9) \div 10

Strong(seen, candidates, phrase) ==
  {p \in candidates : Matches(seen, p, phrase) >= Required(Cardinality(Tokens(phrase)))}

\* Only the strongest; ties stay, so that the skill asks instead of guessing.
Strongest(seen, candidates, phrase) ==
  LET strong == Strong(seen, candidates, phrase)
  IN  {p \in strong : \A q \in strong : Matches(seen, q, phrase) <= Matches(seen, p, phrase)}

Ranked(seen, candidates, phrase) ==
  LET exact == {p \in candidates : Called(seen, p, phrase)}
  IN  IF exact # {} THEN exact
      ELSE IF Tokens(phrase) = {} THEN {}
      ELSE Strongest(seen, candidates, phrase)

\* Candidates come in their order, and the first are shown.
First(n, candidates) ==
  {i \in candidates : Cardinality({j \in candidates : Position[j] < Position[i]}) < n}

\* Too many candidates are not ranked.
SearchProducts(seen, phrase) ==
  LET found == Findable(seen, phrase)
  IN  First(Proposed, IF Cardinality(found) > CandidateLimit THEN found
                     ELSE Ranked(seen, found, phrase))

SearchPlaces(seen, phrase) ==
  First(Proposed, {p \in Active(seen, Depot) :
    \E text \in {CodeWords[p], seen[p].name} :
      \E i, j \in DOMAIN text : SubSeq(text, i, j) = phrase})

\* resolveCatalogCandidate
Resolve(seen, candidates, phrase) ==
  LET exact == {i \in candidates : Called(seen, i, phrase)}
      left == IF exact # {} THEN exact ELSE candidates
  IN  IF \E i \in left : left = {i}
      THEN [kind |-> "found", exact |-> exact # {}, item |-> CHOOSE i \in left : TRUE,
            seen |-> seen]
      ELSE [kind |-> IF left = {} THEN "notFound" ELSE "ambiguous"]

-----------------------------------------------------------------------------
(* Turns.                                                                  *)

Unsaid == <<>>
NothingSaid == [product |-> Unsaid, place |-> Unsaid]
Unresolved == [kind |-> "none"]
Resting == [step |-> "none", product |-> Unresolved, place |-> Unresolved]
Silent == [kind |-> "none"]

\* Asked for a slot, somebody says it; or starts anew.
Say(said) ==
  /\ turn = Resting
  /\ reply.kind = "elicit" =>
       \/ reply.slot = "product" /\ said.place = slots.place
       \/ reply.slot = "place" /\ said.product = slots.product
       \/ said.place = Unsaid
  /\ slots' = said
  /\ turn' = [Resting EXCEPT !.step = "product"]
  /\ reply' = Silent
  /\ UNCHANGED <<catalogue, renames>>

Replies(answer) == turn' = Resting /\ reply' = answer /\ UNCHANGED <<catalogue, renames, slots>>

Elicits(slot) == Replies([kind |-> "elicit", slot |-> slot])

\* A slot without a value is asked for; what is not found, or is several things, again.
FindProduct ==
  /\ turn.step = "product"
  /\ LET phrase == ProductPhrase(slots.product)
         found == Resolve(catalogue, SearchProducts(catalogue, phrase), phrase)
     IN  IF slots.product = Unsaid \/ found.kind # "found" THEN Elicits("product")
         ELSE IF slots.place = Unsaid THEN Elicits("place")
         ELSE /\ turn' = [turn EXCEPT !.step = "place", !.product = found]
              /\ UNCHANGED <<catalogue, renames, slots, reply>>

FindPlace ==
  /\ turn.step = "place"
  /\ LET phrase == PlacePhrase(slots.place)
         found == Resolve(catalogue, SearchPlaces(catalogue, phrase), phrase)
     IN  IF found.kind # "found" THEN Elicits("place")
         ELSE /\ turn' = [turn EXCEPT !.step = "stock", !.place = found]
              /\ UNCHANGED <<catalogue, renames, slots, reply>>

Inferred == ~(turn.product.exact /\ turn.place.exact)

\* The answer names what was understood, first if it was not what was said.
ReadStock ==
  /\ turn.step = "stock"
  /\ \/ Replies([kind |-> "quantity", said |-> slots, announced |-> Inferred,
                 product |-> turn.product, place |-> turn.place])
     \/ Replies([kind |-> "noBalance"])

\* The bridge: no valid token, no permission, too many queries, four seconds.
Refuse ==
  /\ turn.step # "none"
  /\ Replies([kind |-> "refused"])

Rename(i, name, active) ==
  /\ renames < MaxRenames
  /\ renames' = renames + 1
  /\ catalogue' = [catalogue EXCEPT ![i] = [name |-> name, active |-> active]]
  /\ UNCHANGED <<slots, turn, reply>>

VoiceInit ==
  /\ catalogue \in Beginning
  /\ renames = 0
  /\ slots = NothingSaid /\ turn = Resting /\ reply = Silent

VoiceNext ==
  \/ \E product \in Phrases.product \cup {Unsaid}, place \in Phrases.place \cup {Unsaid} :
       Say([product |-> product, place |-> place])
  \/ FindProduct \/ FindPlace \/ ReadStock \/ Refuse
  \/ \E i \in Item, active \in BOOLEAN : \E name \in NamesOf[i] : Rename(i, name, active)

VoiceSpec == VoiceInit /\ [][VoiceNext]_spoken

-----------------------------------------------------------------------------
\* "The skill asks instead of guessing."  A quantity is told of a product that
\* was said by its code or name, by no other's that was found, or of the one
\* product that more of the words fit than any other that could be found, and
\* enough of them; and then the answer says so first.  Likewise a warehouse
\* that was not said by name is the only one that holds the words.
NeverGuesses ==
  reply.kind = "quantity" =>
    LET p == reply.product.item
        w == reply.place.item
        seen == reply.product.seen
        phrase == ProductPhrase(reply.said.product)
        words == PlacePhrase(reply.said.place)
        others == Findable(seen, phrase) \ {p}
        Fits(i) == Matches(seen, i, phrase)
    IN  /\ seen[p].active /\ reply.place.seen[w].active
        /\ \/ /\ Called(seen, p, phrase)
              /\ Cardinality(others) < CandidateLimit => \A q \in others : ~Called(seen, q, phrase)
           \/ /\ reply.announced
              /\ \A q \in others : Fits(q) < Fits(p)
              /\ 10 * Fits(p) >= 7 * Cardinality(Tokens(phrase))
        /\ \/ Called(reply.place.seen, w, words)
           \/ reply.announced /\ SearchPlaces(reply.place.seen, words) = {w}
=============================================================================
