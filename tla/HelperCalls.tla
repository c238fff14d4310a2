------------------------------ MODULE HelperCalls ------------------------------
(***************************************************************************)
(* The refusals of the routes, and the helpers the service inherits, which *)
(* no route calls yet, with every input of a bounded set: a translated     *)
(* field refused, or stored and shown; a search; an image received and     *)
(* then stored.                                                             *)
(***************************************************************************)
EXTENDS Localisation, SearchTerm, ImageUpload

CONSTANTS
  Tags,      \* what Accept-Language may begin with
  RawTerms,  \* what users type
  Texts      \* what is searched

VARIABLE call   \* the call made, and what became of it

NoCall == [of |-> "none"]
Init == call = NoCall

Refused(by, status, tag, texts) ==
  [of |-> "refusal", by |-> by, status |-> status, tag |-> tag, texts |-> texts]

(* A request is refused by its route: 401, 404, 409 or, malformed, 422. *)
Refuse ==
  /\ call = NoCall
  /\ \E status \in {401, 404, 409, 422}, tag \in Tags :
       call' = Refused("route", status, tag, {RefusalText(status, resolveLang(tag))})

(* The messages of a validator that has localizedTextMessages. *)
ErrorTexts(errors, bounded, tag) ==
  {ErrorText(error, bounded, resolveLang(tag)) : error \in errors}

(* A translated field arrives over HTTP: stored, or refused with 422. *)
ReceiveText ==
  /\ call = NoCall
  /\ \E sent \in [ContentLocales -> Sent], bounded \in BOOLEAN, tag \in Tags :
       LET field == [l \in ContentLocales |-> Parsed(sent[l])]
           errors == Errors(field, bounded) IN
       call' = IF errors = {}
               THEN [of |-> "stored", sent |-> sent, map |-> Stored(field)]
               ELSE Refused("field", 422, tag, ErrorTexts(errors, bounded, tag))

(* Something else than a map is sent for it, or nothing. *)
ReceiveNoMap ==
  /\ call = NoCall
  /\ \E sent \in Sent, bounded \in BOOLEAN, tag \in Tags :
       call' = Refused("field", 422, tag,
                       ErrorTexts(NoMapErrors(Parsed(sent)), bounded, tag))

(* A map that came another way: French is there, the rest may be empty.    *)
SeedText ==
  /\ call = NoCall
  /\ \E sent \in [ContentLocales -> {Missing, Empty, "text"}] :
       /\ sent.fr = "text"
       /\ call' = [of |-> "stored", sent |-> sent,
                   map |-> [l \in ContentLocales |->
                              IF sent[l] = "text" THEN l ELSE sent[l]]]

ShowText ==
  /\ call.of = "stored"
  /\ \E locale \in Tags :
       call' = [of |-> "shown", sent |-> call.sent, locale |-> locale,
                text |-> pickLocalized(call.map, locale)]

Search ==
  /\ call = NoCall
  /\ \E raw \in RawTerms :
       call' = [of |-> "search", raw |-> raw, pattern |-> toContainsPattern(raw)]

(* Two reads of the file, each of which may fail. *)
ReceiveImage ==
  /\ call = NoCall
  /\ \E file \in Files, readable \in BOOLEAN :
       /\ \E extname \in Extnames(file) : ImageFileAccepts(file, extname, readable)
       /\ call' = [of |-> "image", file |-> file]

StoreImage ==
  /\ call.of = "image"
  /\ \E readable \in BOOLEAN :
       call' = [of |-> "storedImage", file |-> call.file,
                name |-> Save(call.file, readable)]

Next == Refuse \/ ReceiveText \/ ReceiveNoMap \/ SeedText \/ ShowText \/ Search
        \/ ReceiveImage \/ StoreImage
Spec == Init /\ [][Next]_call

-------------------------------------------------------------------------------
(* What a reader is refused with can be read (localized_text.ts:51-67).     *)
(* Who asks for a language the platform does not write reads English,      *)
(* whatever refuses.  Who asks for French reads French where the service   *)
(* chose the words: 401, 404, 409, and every error of a translated field,  *)
(* of which localizedTextMessages leaves none to VineJS.  The 409 and the  *)
(* field fall back on French in Ewe.  The rest is in English and is not    *)
(* claimed: the 422 of a route, and 401 and 404 in Ewe.                     *)
RefusalsAreReadable ==
  call.of = "refusal" =>
    /\ call.tag \notin {"fr", "ee"} => call.texts = {"en"}
    /\ call.tag = "fr" /\ (call.by = "field" \/ call.status # 422)
         => call.texts = {"fr"}
    /\ call.tag = "ee" /\ (call.by = "field" \/ call.status = 409)
         => call.texts = {"fr"}

(* Whatever was stored shows in every language: a text of the language     *)
(* asked for if there is one, else French (localized_text.ts:105-113).      *)
StoredTextShows ==
  call.of = "shown" =>
    LET written == {l \in ContentLocales : call.sent[l] \in {"text", "long"}} IN
    call.text = IF call.locale \in written THEN call.locale ELSE "fr"

(* A search finds what contains the term as it was typed, wildcards and    *)
(* backslashes included, and nothing else - also where it was cut for its  *)
(* length (search_term.ts:9-25).                                            *)
PatternMeansContains ==
  call.of = "search" /\ call.pattern # NoTerm =>
    \A text \in Texts :
      localizedContains({text}, call.pattern)
        <=> ContainsTerm(text, normalizeSearchTerm(call.raw))

(* A stored image is named after what it is, whatever the client called it,*)
(* and what is no image, or could not be read, is not stored                *)
(* (image_store.ts:25-36).                                                  *)
ServedAsItsContent ==
  call.of = "storedImage" /\ call.name # NotAnImage =>
    /\ contentType(call.name) = TypeOfKind[call.file.kind]
    /\ call.file.kind \in DOMAIN ImageFormats /\ ~call.file.cut
===============================================================================
