----------------------------- MODULE HelperProofs -----------------------------
(***************************************************************************)
(* The helpers, whatever a client's Accept-Language begins with: a refusal *)
(* can be read, a stored text shows in every language, and an image is     *)
(* named after what its bytes are.  The searches stay with   *)
(* the model checker: what a pattern matches is a recursive definition.     *)
(***************************************************************************)
EXTENDS HelperCalls, SequenceTheorems, TLAPS

-------------------------------------------------------------------------------
(* Which answers an operation gives. *)

LEMMA AnswerOf ==
  /\ Refuse => call'.of = "refusal"
  /\ ReceiveText => call'.of \in {"stored", "refusal"}
  /\ ReceiveNoMap => call'.of = "refusal"
  /\ SeedText => call'.of = "stored"
  /\ ShowText => call'.of = "shown"
  /\ Search => call'.of = "search"
  /\ ReceiveImage => call'.of = "image"
  /\ StoreImage => call'.of = "storedImage"
<1>1. Refuse => call'.of = "refusal"
  BY DEF Refuse, Refused
<1>2. ReceiveText => call'.of \in {"stored", "refusal"}
  BY DEF ReceiveText, Refused
<1>8. ReceiveNoMap => call'.of = "refusal"
  BY DEF ReceiveNoMap, Refused
<1>3. SeedText => call'.of = "stored"
  BY DEF SeedText
<1>4. ShowText => call'.of = "shown"
  BY DEF ShowText
<1>5. Search => call'.of = "search"
  BY DEF Search
<1>6. ReceiveImage => call'.of = "image"
  BY DEF ReceiveImage
<1>7. StoreImage => call'.of = "storedImage"
  BY DEF StoreImage
<1> QED
  BY <1>1, <1>2, <1>3, <1>4, <1>5, <1>6, <1>7, <1>8

-------------------------------------------------------------------------------
(* The first language of a chain that has a translation. *)

LEMMA TranslationInItsLanguage ==
  ASSUME NEW translations, NEW fallback, NEW locale \in ContentLocales,
         IsThere(translations[locale])
  PROVE  pickTranslation(translations, locale, fallback) = translations[locale]
<1> DEFINE chain == Chain(locale)
           there == {i \in DOMAIN chain : IsThere(translations[chain[i]])}
<1>1. chain \in {<<"fr">>, <<"en">>, <<"ee", "fr">>} /\ chain[1] = locale
  BY DEF Chain, ContentLocales, LocaleFallbacks
<1>2. DOMAIN chain \subseteq 1..2 /\ 1 \in there
  BY <1>1
<1>3. \A i \in there : (\A j \in there : i <= j) <=> i = 1
  BY <1>2
<1>4. (CHOOSE i \in there : \A j \in there : i <= j) = 1
  BY <1>2, <1>3
<1> QED
  BY <1>1, <1>2, <1>4 DEF pickTranslation

(* What the platform does not write in Ewe is looked for in French. *)
LEMMA EweFallsBackOnFrench ==
  ASSUME NEW translations, NEW fallback,
         ~IsThere(translations["ee"]), IsThere(translations["fr"])
  PROVE  pickTranslation(translations, "ee", fallback) = translations["fr"]
<1> DEFINE chain == Chain("ee")
           there == {i \in DOMAIN chain : IsThere(translations[chain[i]])}
<1>1. chain = <<"ee", "fr">>
  BY DEF Chain, ContentLocales, LocaleFallbacks
<1>2. there = {2}
  BY <1>1
<1>3. (CHOOSE i \in there : \A j \in there : i <= j) = 2
  BY <1>2
<1> QED
  BY <1>1, <1>2, <1>3 DEF pickTranslation

LEMMA OthersUseTheFallback ==
  ASSUME NEW translations, NEW fallback, NEW locale, locale # "ee",
         locale \in ContentLocales => ~IsThere(translations[locale])
  PROVE  pickTranslation(translations, locale, fallback) = fallback
<1> DEFINE chain == Chain(locale)
           there == {i \in DOMAIN chain : IsThere(translations[chain[i]])}
<1>1. chain \in {<<>>, <<locale>>} /\ (chain # <<>> => locale \in ContentLocales)
  BY DEF Chain, ContentLocales, LocaleFallbacks
<1>2. there = {}
  BY <1>1
<1> QED
  BY <1>2 DEF pickTranslation

-------------------------------------------------------------------------------
(* Refusals. *)

LEMMA LanguageOf ==
  ASSUME NEW tag
  PROVE  /\ tag = "fr" => resolveLang(tag) = "fr"
         /\ tag = "ee" => resolveLang(tag) = "ee"
         /\ tag \notin {"fr", "ee"} => resolveLang(tag) = "en"
BY DEF resolveLang, isPlatformLang, ContentLocales

(* A route's refusal. *)
LEMMA RouteLanguage ==
  ASSUME NEW tag, NEW status \in {401, 404, 409, 422}
  PROVE  /\ tag \notin {"fr", "ee"} => RefusalText(status, resolveLang(tag)) = "en"
         /\ tag = "fr" /\ status # 422 => RefusalText(status, resolveLang(tag)) = "fr"
         /\ tag = "ee" /\ status = 409 => RefusalText(status, resolveLang(tag)) = "fr"
<1>1. /\ IsThere(ServerMessage["fr"]) /\ ServerMessage["fr"] = "fr"
      /\ IsThere(ServerMessage["en"]) /\ ServerMessage["en"] = "en"
      /\ ~IsThere(ServerMessage["ee"])
  BY DEF ServerMessage, IsThere, Missing, Empty
<1>2. /\ InProgressText("fr") = "fr"
      /\ InProgressText("en") = "en"
      /\ InProgressText("ee") = "fr"
  BY <1>1, TranslationInItsLanguage, EweFallsBackOnFrench
     DEF InProgressText, ContentLocales
<1>3. CASE status \in {401, 404}
  BY <1>3, LanguageOf DEF RefusalText, UnauthencatedText, NotExistsText
<1>4. CASE status = 409
  BY <1>2, <1>4, LanguageOf DEF RefusalText
<1>5. CASE status = 422
  BY <1>5 DEF RefusalText, VineText
<1> QED
  BY <1>3, <1>4, <1>5

(* What ValidatorMessages makes of a message in French and a default. *)
LEMMA ValidationLanguage ==
  /\ ValidationText("fr") = "fr"
  /\ ValidationText("en") = "en"
  /\ ValidationText("ee") = "fr"
<1>1. /\ IsThere(ValidationMessage["fr"]) /\ ValidationMessage["fr"] = "fr"
      /\ ~IsThere(ValidationMessage["en"])
      /\ ~IsThere(ValidationMessage["ee"])
  BY DEF ValidationMessage, IsThere, Missing, Empty
<1> QED
  BY <1>1, TranslationInItsLanguage, EweFallsBackOnFrench, OthersUseTheFallback
     DEF ValidationText, ContentLocales, Default

(* No error of a translated field is left to VineJS' own words: none that  *)
(* a map breaks, and none of what is no map.                                *)
LEMMA EveryErrorIsExplained ==
  ASSUME NEW field, NEW bounded \in BOOLEAN, NEW error \in Errors(field, bounded)
  PROVE  Explained(error, bounded)
<1>1. PICK locale \in ContentLocales :
        error \in {<<locale, rule>> : rule \in BrokenRules(locale, field[locale], bounded)}
  BY DEF Errors
<1>2. PICK rule \in BrokenRules(locale, field[locale], bounded) : error = <<locale, rule>>
  BY <1>1
<1>3. \/ locale = "fr" /\ rule = "required"
      \/ rule \in {"string", "minLength"}
      \/ rule = "maxLength" /\ bounded
  BY <1>2 DEF BrokenRules
<1> QED
  BY <1>2, <1>3 DEF Explained, localizedTextMessages, BaseMessages

LEMMA NoMapIsExplained ==
  ASSUME NEW value, NEW bounded \in BOOLEAN, NEW error \in NoMapErrors(value)
  PROVE  Explained(error, bounded)
<1>1. CASE error = <<"field", "required">>
  BY <1>1 DEF Explained, BaseMessages
<1>2. CASE error = <<"field", "object">>
  BY <1>2 DEF Explained, localizedTextMessages
<1>3. error \in {<<"field", "required">>, <<"field", "object">>}
  BY DEF NoMapErrors
<1> QED
  BY <1>1, <1>2, <1>3

(* So its refusal is in one language, and that is a reader's. *)
LEMMA FieldLanguage ==
  ASSUME NEW errors, errors # {}, NEW bounded \in BOOLEAN, NEW tag, NEW status,
         \A error \in errors : Explained(error, bounded),
         call' = Refused("field", status, tag, ErrorTexts(errors, bounded, tag))
  PROVE  RefusalsAreReadable'
<1>1. ErrorTexts(errors, bounded, tag) = {ValidationText(resolveLang(tag))}
  BY DEF ErrorTexts, ErrorText
<1>2. /\ call'.tag = tag /\ call'.by = "field"
      /\ call'.texts = {ValidationText(resolveLang(tag))}
  BY <1>1 DEF Refused
<1>3. /\ tag \notin {"fr", "ee"} => ValidationText(resolveLang(tag)) = "en"
      /\ tag \in {"fr", "ee"} => ValidationText(resolveLang(tag)) = "fr"
  BY LanguageOf, ValidationLanguage
<1> QED
  BY <1>2, <1>3 DEF RefusalsAreReadable

(* Each of the operations that refuse does so in one language. *)
LEMMA RefusalsStep ==
  ASSUME RefusalsAreReadable, [Next]_call
  PROVE  RefusalsAreReadable'
<1>1. CASE Refuse
  <2>1. PICK status \in {401, 404, 409, 422}, tag \in Tags :
          call' = Refused("route", status, tag, {RefusalText(status, resolveLang(tag))})
    BY <1>1 DEF Refuse
  <2>2. /\ call'.tag = tag /\ call'.by = "route" /\ call'.status = status
        /\ call'.texts = {RefusalText(status, resolveLang(tag))}
    BY <2>1 DEF Refused
  <2> QED
    BY <2>2, RouteLanguage DEF RefusalsAreReadable
<1>2. CASE ReceiveText
  <2>1. PICK sent \in [ContentLocales -> Sent], bounded \in BOOLEAN, tag \in Tags :
          LET field == [l \in ContentLocales |-> Parsed(sent[l])]
              errors == Errors(field, bounded) IN
          call' = IF errors = {}
                  THEN [of |-> "stored", sent |-> sent, map |-> Stored(field)]
                  ELSE Refused("field", 422, tag, ErrorTexts(errors, bounded, tag))
    BY <1>2 DEF ReceiveText
  <2> DEFINE field == [l \in ContentLocales |-> Parsed(sent[l])]
             errors == Errors(field, bounded)
  <2>2. CASE errors = {}
    BY <2>1, <2>2 DEF RefusalsAreReadable
  <2>3. CASE errors # {}
    <3>1. call' = Refused("field", 422, tag, ErrorTexts(errors, bounded, tag))
      BY <2>1, <2>3
    <3>2. \A error \in errors : Explained(error, bounded)
      <4> HIDE DEF field
      <4> QED
        BY EveryErrorIsExplained
    <3> HIDE DEF errors
    <3> QED
      BY <2>3, <3>1, <3>2, FieldLanguage
  <2> QED
    BY <2>2, <2>3
<1>3. CASE ReceiveNoMap
  <2>1. PICK sent \in Sent, bounded \in BOOLEAN, tag \in Tags :
          call' = Refused("field", 422, tag,
                          ErrorTexts(NoMapErrors(Parsed(sent)), bounded, tag))
    BY <1>3 DEF ReceiveNoMap
  <2>2. NoMapErrors(Parsed(sent)) # {}
    BY DEF NoMapErrors
  <2>3. \A error \in NoMapErrors(Parsed(sent)) : Explained(error, bounded)
    BY NoMapIsExplained
  <2> QED
    BY <2>1, <2>2, <2>3, FieldLanguage
<1>4. CASE SeedText \/ ShowText \/ Search \/ ReceiveImage \/ StoreImage
  BY <1>4, AnswerOf DEF RefusalsAreReadable
<1>5. CASE UNCHANGED call
  BY <1>5 DEF RefusalsAreReadable
<1> QED
  BY <1>1, <1>2, <1>3, <1>4, <1>5 DEF Next

(* HelperCalls.RefusalsAreReadable, whatever Accept-Language begins with   *)
(* and whatever is wrong with the field: English for who asks for neither  *)
(* French nor Ewe; French where the service chose the words, and in Ewe    *)
(* where they fall back (localized_text.ts:51-67,                           *)
(* validator_messages.ts:108-193).                                          *)
THEOREM RefusalsCanBeRead == Spec => []RefusalsAreReadable
<1>1. Init => RefusalsAreReadable
  BY DEF Init, NoCall, RefusalsAreReadable
<1> QED
  BY <1>1, RefusalsStep, PTL DEF Spec

-------------------------------------------------------------------------------
(* Translated fields. *)

Written(sent) == {l \in ContentLocales : sent[l] \in {"text", "long"}}

(* A stored map holds what was sent, each text in its language; French is  *)
(* there.                                                                   *)
StoredIsWritten ==
  call.of = "stored" =>
    /\ "fr" \in Written(call.sent)
    /\ \A l \in ContentLocales :
         IF l \in Written(call.sent) THEN call.map[l] = l ELSE ~IsThere(call.map[l])

(* What passes every rule is missing or text, and French is not missing.   *)
LEMMA AcceptedIsWritten ==
  ASSUME NEW sent \in [ContentLocales -> Sent], NEW bounded \in BOOLEAN, NEW field,
         field = [l \in ContentLocales |-> Parsed(sent[l])],
         Errors(field, bounded) = {}
  PROVE  /\ "fr" \in Written(sent)
         /\ \A l \in ContentLocales :
              IF l \in Written(sent) THEN Stored(field)[l] = l
              ELSE ~IsThere(Stored(field)[l])
<1>1. ASSUME NEW l \in ContentLocales, NEW rule \in BrokenRules(l, field[l], bounded)
      PROVE  FALSE
  <2>1. <<l, rule>> \in {<<l, r>> : r \in BrokenRules(l, field[l], bounded)}
    OBVIOUS
  <2>2. <<l, rule>> \in Errors(field, bounded)
    BY <2>1 DEF Errors
  <2> QED
    BY <2>2
<1>2. \A l \in ContentLocales :
        IF l \in Written(sent) THEN field[l] # Missing
        ELSE field[l] = Missing /\ l # "fr"
  <2> SUFFICES ASSUME NEW l \in ContentLocales
               PROVE  IF l \in Written(sent) THEN field[l] # Missing
                      ELSE field[l] = Missing /\ l # "fr"
    OBVIOUS
  <2>1. field[l] = Parsed(sent[l]) /\ sent[l] \in Sent
    OBVIOUS
  <2>2. CASE sent[l] \in {"text", "long"}
    BY <2>1, <2>2 DEF Written, Parsed, Missing, Empty, Blank
  <2>3. CASE sent[l] = "number"
    <3>1. field[l] = "number"
      BY <2>1, <2>3 DEF Parsed, Missing, Empty, Blank
    <3>2. "string" \in BrokenRules(l, field[l], bounded)
      BY <3>1 DEF BrokenRules, Missing, Empty, Blank
    <3> QED
      BY <1>1, <3>2
  <2>4. CASE sent[l] \in {Missing, Empty, Blank}
    <3>1. field[l] = Missing
      BY <2>1, <2>4 DEF Parsed
    <3>2. l = "fr" => "required" \in BrokenRules(l, field[l], bounded)
      BY <3>1 DEF BrokenRules, Missing, Empty, Blank
    <3> QED
      BY <1>1, <2>4, <3>1, <3>2 DEF Written, Missing, Empty, Blank
  <2> QED
    BY <2>1, <2>2, <2>3, <2>4 DEF Sent
<1>3. \A l \in ContentLocales : Stored(field)[l] = IF field[l] = Missing THEN Missing ELSE l
  BY DEF Stored
<1> QED
  BY <1>2, <1>3 DEF IsThere, ContentLocales

LEMMA StoredStep ==
  ASSUME StoredIsWritten, [Next]_call
  PROVE  StoredIsWritten'
<1>1. CASE ReceiveText
  <2>1. PICK sent \in [ContentLocales -> Sent], bounded \in BOOLEAN, tag \in Tags :
          LET field == [l \in ContentLocales |-> Parsed(sent[l])]
              errors == Errors(field, bounded) IN
          call' = IF errors = {}
                  THEN [of |-> "stored", sent |-> sent, map |-> Stored(field)]
                  ELSE Refused("field", 422, tag, ErrorTexts(errors, bounded, tag))
    BY <1>1 DEF ReceiveText
  <2> DEFINE field == [l \in ContentLocales |-> Parsed(sent[l])]
  <2>2. CASE Errors(field, bounded) = {}
    <3>1. call' = [of |-> "stored", sent |-> sent, map |-> Stored(field)]
      BY <2>1, <2>2
    <3> QED
      BY <2>2, <3>1, AcceptedIsWritten DEF StoredIsWritten
  <2>3. CASE Errors(field, bounded) # {}
    BY <2>1, <2>3 DEF StoredIsWritten, Refused
  <2> QED
    BY <2>2, <2>3
<1>2. CASE SeedText
  <2>1. PICK sent \in [ContentLocales -> {Missing, Empty, "text"}] :
          /\ sent.fr = "text"
          /\ call' = [of |-> "stored", sent |-> sent,
                      map |-> [l \in ContentLocales |->
                                 IF sent[l] = "text" THEN l ELSE sent[l]]]
    BY <1>2 DEF SeedText
  <2>2. Written(sent) = {l \in ContentLocales : sent[l] = "text"}
    BY DEF Written, Missing, Empty
  <2> QED
    BY <2>1, <2>2 DEF StoredIsWritten, IsThere, ContentLocales
<1>3. CASE Refuse \/ ReceiveNoMap \/ ShowText \/ Search \/ ReceiveImage \/ StoreImage
  BY <1>3, AnswerOf DEF StoredIsWritten
<1>4. CASE UNCHANGED call
  BY <1>4 DEF StoredIsWritten
<1> QED
  BY <1>1, <1>2, <1>3, <1>4 DEF Next

LEMMA ShownIsWritten ==
  ASSUME NEW map, NEW sent, NEW locale, "fr" \in Written(sent),
         \A l \in ContentLocales :
           IF l \in Written(sent) THEN map[l] = l ELSE ~IsThere(map[l])
  PROVE  pickLocalized(map, locale) = IF locale \in Written(sent) THEN locale ELSE "fr"
<1>1. \A l \in ContentLocales : l \in Written(sent) <=> IsThere(map[l])
  BY DEF IsThere, Missing, Empty, ContentLocales
<1>2. map["fr"] = "fr" /\ IsThere(map["fr"])
  BY <1>1 DEF ContentLocales
<1>3. CASE locale \in Written(sent)
  <2>1. locale \in ContentLocales /\ IsThere(map[locale]) /\ map[locale] = locale
    BY <1>1, <1>3 DEF Written
  <2> QED
    BY <1>3, <2>1, TranslationInItsLanguage DEF pickLocalized
<1>4. CASE locale \notin Written(sent)
  <2>1. locale \in ContentLocales => ~IsThere(map[locale])
    BY <1>4
  <2>2. CASE locale = "ee"
    BY <1>2, <1>4, <2>1, <2>2, EweFallsBackOnFrench DEF pickLocalized, ContentLocales
  <2>3. CASE locale # "ee"
    BY <1>2, <1>4, <2>1, <2>3, OthersUseTheFallback DEF pickLocalized
  <2> QED
    BY <2>2, <2>3
<1> QED
  BY <1>3, <1>4

LEMMA ShownStep ==
  ASSUME StoredTextShows, StoredIsWritten, [Next]_call
  PROVE  StoredTextShows'
<1>1. CASE ShowText
  <2>1. PICK locale \in Tags :
          call' = [of |-> "shown", sent |-> call.sent, locale |-> locale,
                   text |-> pickLocalized(call.map, locale)]
    BY <1>1 DEF ShowText
  <2>2. call'.text = IF locale \in Written(call.sent) THEN locale ELSE "fr"
    BY <1>1, <2>1, ShownIsWritten DEF ShowText, StoredIsWritten
  <2> QED
    BY <2>1, <2>2 DEF StoredTextShows, Written
<1>2. CASE \/ Refuse \/ ReceiveText \/ ReceiveNoMap \/ SeedText
            \/ Search \/ ReceiveImage \/ StoreImage
  BY <1>2, AnswerOf DEF StoredTextShows
<1>3. CASE UNCHANGED call
  BY <1>3 DEF StoredTextShows
<1> QED
  BY <1>1, <1>2, <1>3 DEF Next

(* HelperCalls.StoredTextShows, in whatever language the text is asked for *)
(* (localized_text.ts:74-113).                                              *)
THEOREM StoredIsShown == Spec => []StoredTextShows
<1>1. Init => StoredIsWritten /\ StoredTextShows
  BY DEF Init, NoCall, StoredIsWritten, StoredTextShows
<1> QED
  BY <1>1, StoredStep, ShownStep, PTL DEF Spec

-------------------------------------------------------------------------------
(* Images. *)

(* One byte is enough to tell that a signature is not there.               *)
LEMMA OtherByte ==
  ASSUME NEW bytes, NEW at, NEW signature, NEW k \in DOMAIN signature,
         bytes[at + k - 1] # signature[k]
  PROVE  ~StartsWith(bytes, at, signature)
BY DEF StartsWith

LEMMA Signatures ==
  /\ Jpeg \in Seq(Nat) /\ DOMAIN Jpeg = 1..3 /\ Jpeg[1] = 255
  /\ Png \in Seq(Nat) /\ DOMAIN Png = 1..8 /\ Png[1] = 137
  /\ Riff \in Seq(Nat) /\ DOMAIN Riff = 1..4 /\ Riff[1] = 82
  /\ WebpMark \in Seq(Nat) /\ DOMAIN WebpMark = 1..4 /\ WebpMark[2] = 69
BY DEF Jpeg, Png, Riff, WebpMark

LEMMA ContentIsBytes ==
  ASSUME NEW kind \in Kinds
  PROVE  Content(kind) \in Seq(Nat) /\ Len(Content(kind)) >= HeaderBytes
<1>1. CASE kind = "jpeg"
  BY <1>1 DEF Content, Jpeg, Filler, HeaderBytes
<1>2. CASE kind = "png"
  BY <1>2 DEF Content, Png, Filler, HeaderBytes
<1>3. CASE kind = "webp"
  BY <1>3 DEF Content, Riff, WebpMark, HeaderBytes
<1>4. CASE kind = "wave"
  BY <1>4 DEF Content, Riff, Wave, HeaderBytes
<1>5. CASE kind = "gif"
  BY <1>5 DEF Content, Filler, HeaderBytes
<1>6. CASE kind = "page"
  BY <1>6 DEF Content, Filler, HeaderBytes
<1> QED
  BY <1>1, <1>2, <1>3, <1>4, <1>5, <1>6 DEF Kinds

(* Each kind of content, and the signatures that imageFormatOf looks for.  *)
LEMMA ContentSignatures ==
  /\ StartsWith(Content("jpeg"), 1, Jpeg)
  /\ StartsWith(Content("png"), 1, Png)
  /\ StartsWith(Content("webp"), 1, Riff) /\ StartsWith(Content("webp"), 9, WebpMark)
  /\ \A kind \in Kinds \ {"jpeg"} : ~StartsWith(Content(kind), 1, Jpeg)
  /\ \A kind \in Kinds \ {"png"} : ~StartsWith(Content(kind), 1, Png)
  /\ \A kind \in {"gif", "page"} : ~StartsWith(Content(kind), 1, Riff)
  /\ ~StartsWith(Content("wave"), 9, WebpMark)
<1>1. /\ Content("jpeg") = Jpeg \o Filler
      /\ Content("png") = Png \o Filler
      /\ Content("webp") = Riff \o <<9, 9, 9, 9>> \o WebpMark
      /\ Content("wave") = Riff \o <<9, 9, 9, 9>> \o Wave
      /\ Content("gif") = <<71, 73, 70, 56>> \o Filler
      /\ Content("page") = <<60, 104, 116, 109>> \o Filler
  BY DEF Content
<1>2. StartsWith(Content("jpeg"), 1, Jpeg)
  <2>1. \A k \in 1..3 : Content("jpeg")[k] = Jpeg[k]
    BY DEF Content, Jpeg, Filler
  <2>2. DOMAIN Jpeg = 1..3
    BY Signatures
  <2>3. \A k \in 1..3 : 1 + k - 1 = k
    OBVIOUS
  <2> QED
    BY <2>1, <2>2, <2>3 DEF StartsWith
<1>3. StartsWith(Content("png"), 1, Png)
  <2>1. \A k \in 1..8 : Content("png")[k] = Png[k]
    BY DEF Content, Png, Filler
  <2>2. DOMAIN Png = 1..8
    BY Signatures
  <2>3. \A k \in 1..8 : 1 + k - 1 = k
    OBVIOUS
  <2> QED
    BY <2>1, <2>2, <2>3 DEF StartsWith
<1>4. StartsWith(Content("webp"), 1, Riff)
  <2>1. /\ Content("webp")[1] = 82 /\ Content("webp")[2] = 73 /\ Content("webp")[3] = 70
        /\ Content("webp")[4] = 70
        /\ Riff[1] = 82 /\ Riff[2] = 73 /\ Riff[3] = 70
        /\ Riff[4] = 70
    BY <1>1 DEF Riff, WebpMark
  <2>2. DOMAIN Riff = 1..4
    BY Signatures
  <2>3. \A k \in 1..4 : Content("webp")[1 + k - 1] = Riff[k]
    BY <2>1
  <2> QED
    BY <2>2, <2>3 DEF StartsWith
<1>5. StartsWith(Content("webp"), 9, WebpMark)
  <2>1. /\ Content("webp")[9] = 87 /\ Content("webp")[10] = 69 /\ Content("webp")[11] = 66
        /\ Content("webp")[12] = 80
        /\ WebpMark[1] = 87 /\ WebpMark[2] = 69 /\ WebpMark[3] = 66
        /\ WebpMark[4] = 80
    BY <1>1 DEF Riff, WebpMark
  <2>2. DOMAIN WebpMark = 1..4
    BY Signatures
  <2>3. \A k \in 1..4 : Content("webp")[9 + k - 1] = WebpMark[k]
    BY <2>1
  <2> QED
    BY <2>2, <2>3 DEF StartsWith
<1>6. /\ Content("jpeg")[1] = 255
      /\ Content("png")[1] = 137
      /\ Content("webp")[1] = 82
      /\ Content("wave")[1] = 82
      /\ Content("gif")[1] = 71
      /\ Content("page")[1] = 60
  BY <1>1 DEF Jpeg, Png, Riff, WebpMark, Wave, Filler
<1>7. Content("wave")[10] = 65
  BY <1>1 DEF Riff, Wave
<1>8. ASSUME NEW kind \in Kinds, NEW signature,
             1 \in DOMAIN signature, Content(kind)[1] # signature[1]
      PROVE  ~StartsWith(Content(kind), 1, signature)
  BY <1>8 DEF StartsWith
<1>9. \A kind \in Kinds \ {"jpeg"} : ~StartsWith(Content(kind), 1, Jpeg)
  <2>1. \A kind \in Kinds \ {"jpeg"} : kind \in Kinds /\ Content(kind)[1] # Jpeg[1]
    BY <1>6, Signatures DEF Kinds
  <2>2. 1 \in DOMAIN Jpeg
    BY Signatures
  <2> QED
    BY <1>8, <2>1, <2>2
<1>10. \A kind \in Kinds \ {"png"} : ~StartsWith(Content(kind), 1, Png)
  <2>1. \A kind \in Kinds \ {"png"} : kind \in Kinds /\ Content(kind)[1] # Png[1]
    BY <1>6, Signatures DEF Kinds
  <2>2. 1 \in DOMAIN Png
    BY Signatures
  <2> QED
    BY <1>8, <2>1, <2>2
<1>11. \A kind \in {"gif", "page"} : ~StartsWith(Content(kind), 1, Riff)
  <2>1. \A kind \in {"gif", "page"} : kind \in Kinds /\ Content(kind)[1] # Riff[1]
    BY <1>6, Signatures DEF Kinds
  <2>2. 1 \in DOMAIN Riff
    BY Signatures
  <2> QED
    BY <1>8, <2>1, <2>2
<1>12. ~StartsWith(Content("wave"), 9, WebpMark)
  <2>1. 2 \in DOMAIN WebpMark /\ Content("wave")[9 + 2 - 1] # WebpMark[2]
    BY <1>7, Signatures
  <2> QED
    BY <2>1, OtherByte
<1> QED
  BY <1>2, <1>3, <1>4, <1>5, <1>9, <1>10, <1>11, <1>12

(* What the first bytes of a whole file are taken for.                     *)
LEMMA FormatOfContent ==
  ASSUME NEW kind \in Kinds, NEW header \in Seq(Nat), Len(header) = HeaderBytes,
         \A k \in 1..HeaderBytes : header[k] = Content(kind)[k]
  PROVE  imageFormatOf(header) = IF kind \in DOMAIN ImageFormats THEN kind ELSE NoFormat
<1> DEFINE content == Content(kind)
<1>1. ASSUME NEW at \in Nat \ {0}, NEW signature,
             \A k \in DOMAIN signature : at + k - 1 \in 1..HeaderBytes
      PROVE  StartsWith(header, at, signature) <=> StartsWith(content, at, signature)
  BY <1>1 DEF StartsWith
<1>2. /\ StartsWith(header, 1, Jpeg) <=> StartsWith(content, 1, Jpeg)
      /\ StartsWith(header, 1, Png) <=> StartsWith(content, 1, Png)
      /\ StartsWith(header, 1, Riff) <=> StartsWith(content, 1, Riff)
      /\ StartsWith(header, 9, WebpMark) <=> StartsWith(content, 9, WebpMark)
  <2>1. /\ \A k \in DOMAIN Jpeg : 1 + k - 1 \in 1..HeaderBytes
        /\ \A k \in DOMAIN Png : 1 + k - 1 \in 1..HeaderBytes
        /\ \A k \in DOMAIN Riff : 1 + k - 1 \in 1..HeaderBytes
        /\ \A k \in DOMAIN WebpMark : 9 + k - 1 \in 1..HeaderBytes
    BY Signatures DEF HeaderBytes
  <2>2. 1 \in Nat \ {0} /\ 9 \in Nat \ {0}
    OBVIOUS
  <2> HIDE DEF content
  <2> QED
    BY <1>1, <2>1, <2>2
<1>3. imageFormatOf(header) =
        IF StartsWith(content, 1, Jpeg) THEN "jpeg"
        ELSE IF StartsWith(content, 1, Png) THEN "png"
        ELSE IF StartsWith(content, 1, Riff) /\ StartsWith(content, 9, WebpMark)
             THEN "webp"
             ELSE NoFormat
  BY <1>2 DEF imageFormatOf, IsWebp, HeaderBytes
<1>4. DOMAIN ImageFormats = {"jpeg", "png", "webp"}
  BY DEF ImageFormats
<1>5. kind \in {"jpeg", "png", "webp", "wave", "gif", "page"}
  BY DEF Kinds
<1> QED
  BY <1>3, <1>4, <1>5, ContentSignatures DEF Kinds

(* A file is read from its start, as far as the signatures go. *)
LEMMA HeaderOfFile ==
  ASSUME NEW bytes \in Seq(Nat), Len(bytes) >= HeaderBytes, NEW header,
         header = SubSeq(bytes, 1, bytesRead(bytes))
  PROVE  /\ header \in Seq(Nat) /\ Len(header) = HeaderBytes
         /\ \A k \in 1..HeaderBytes : header[k] = bytes[k]
<1>1. Len(bytes) \in Nat /\ \A k \in 1..Len(bytes) : bytes[k] \in Nat
  BY LenProperties, ElementOfSeq
<1>2. \A k \in 1..12 : bytes[k] \in Nat
  BY <1>1 DEF HeaderBytes
<1>3. header = SubSeq(bytes, 1, 12)
  <2>1. PICK n \in Nat : n = Len(bytes)
    BY <1>1
  <2>2. n >= 12
    BY <2>1 DEF HeaderBytes
  <2>3. bytesRead(bytes) = IF n > 12 THEN 12 ELSE n
    BY <2>1 DEF bytesRead, HeaderBytes
  <2>4. bytesRead(bytes) = 12
    BY <2>2, <2>3
  <2> QED
    BY <2>4
<1>4. /\ SubSeq(bytes, 1, 12) \in Seq(Nat)
      /\ Len(SubSeq(bytes, 1, 12)) = 12
      /\ \A k \in 1..12 : SubSeq(bytes, 1, 12)[k] = bytes[1 + k - 1]
  BY <1>2, SubSeqProperties
<1>5. \A k \in 1..12 : 1 + k - 1 = k
  OBVIOUS
<1>6. \A k \in 1..12 : header[k] = bytes[k]
  BY <1>3, <1>4, <1>5
<1> QED
  BY <1>3, <1>4, <1>6 DEF HeaderBytes

(* A file is taken for the image it is, and for nothing else.              *)
LEMMA FormatOfFile ==
  ASSUME NEW file \in Files, NEW readable \in BOOLEAN,
         imageFormatOfFile(BytesOf(file), readable) # NoFormat
  PROVE  /\ imageFormatOfFile(BytesOf(file), readable) = file.kind
         /\ file.kind \in DOMAIN ImageFormats
         /\ ~file.cut
<1>1. PICK content : content = Content(file.kind)
  OBVIOUS
<1>2. PICK bytes : bytes = BytesOf(file)
  OBVIOUS
<1>3. PICK header : header = SubSeq(bytes, 1, bytesRead(bytes))
  OBVIOUS
<1>4. file.kind \in Kinds /\ file.cut \in BOOLEAN
  BY DEF Files
<1>5. content \in Seq(Nat) /\ Len(content) \in Nat /\ Len(content) >= HeaderBytes
  BY <1>1, <1>4, ContentIsBytes, LenProperties
<1>6. imageFormatOfFile(bytes, readable) = imageFormatOf(header)
  BY <1>2, <1>3 DEF imageFormatOfFile
<1>7. ~file.cut
  <2> SUFFICES ASSUME file.cut PROVE FALSE
    BY <1>4
  <2>1. bytes = SubSeq(content, 1, 11)
    BY <1>1, <1>2 DEF BytesOf, HeaderBytes
  <2>2. \A k \in 1..11 : content[k] \in Nat
    BY <1>5, ElementOfSeq DEF HeaderBytes
  <2>3. bytes \in Seq(Nat) /\ Len(bytes) = 11
    BY <2>1, <2>2, SubSeqProperties
  <2>4. header = SubSeq(bytes, 1, Len(bytes))
    BY <1>3, <2>3 DEF bytesRead, HeaderBytes
  <2>5. header = bytes
    BY <2>3, <2>4, SubSeqFull
  <2>6. Len(header) < HeaderBytes
    <3>1. Len(header) = 11
      BY <2>3, <2>5
    <3> QED
      BY <3>1 DEF HeaderBytes
  <2>7. imageFormatOf(header) = NoFormat
    BY <2>6 DEF imageFormatOf
  <2> QED
    BY <1>2, <1>6, <2>7
<1>8. bytes = content
  BY <1>1, <1>2, <1>7 DEF BytesOf
<1>9. /\ header \in Seq(Nat) /\ Len(header) = HeaderBytes
      /\ \A k \in 1..HeaderBytes : header[k] = content[k]
  BY <1>3, <1>5, <1>8, HeaderOfFile
<1>10. imageFormatOf(header) = IF file.kind \in DOMAIN ImageFormats THEN file.kind
                               ELSE NoFormat
  BY <1>1, <1>4, <1>9, FormatOfContent
<1> QED
  BY <1>2, <1>6, <1>7, <1>10

(* The extension of a name that has one dot is what follows it.            *)
LEMMA ExtensionAfterTheDot ==
  ASSUME NEW ext, ext # Dot, ext # Query
  PROVE  getExtension(<<"uuid", Dot, ext>>) = <<ext>>
<1> DEFINE name == <<"uuid", Dot, ext>>
           dots == {i \in DOMAIN name : name[i] = Dot}
<1>1. DOMAIN name = 1..3 /\ Len(name) = 3 /\ name[3] = ext
  OBVIOUS
<1>2. dots = {2}
  BY <1>1 DEF Dot
<1>3. (CHOOSE i \in dots : \A j \in dots : j <= i) = 2
  BY <1>2
<1>4. After(name, Dot) = SubSeq(name, 3, 3)
  BY <1>1, <1>2, <1>3 DEF After
<1>5. SubSeq(name, 3, 3) = <<ext>>
  <2>1. \A k \in 3..3 : name[k] \in {ext}
    BY <1>1
  <2>2. /\ SubSeq(name, 3, 3) \in Seq({ext})
        /\ Len(SubSeq(name, 3, 3)) = 1
        /\ \A k \in 1..1 : SubSeq(name, 3, 3)[k] = name[3 + k - 1]
    BY <2>1, SubSeqProperties
  <2>3. <<ext>> \in Seq({ext}) /\ Len(<<ext>>) = 1 /\ <<ext>>[1] = ext
    OBVIOUS
  <2>4. \A k \in 1..1 : SubSeq(name, 3, 3)[k] = <<ext>>[k]
    BY <1>1, <2>2, <2>3
  <2> QED
    BY <2>2, <2>3, <2>4, SeqEqual
<1>6. Before(<<ext>>, Query) = <<ext>>
  BY DEF Before
<1> QED
  BY <1>4, <1>5, <1>6 DEF getExtension

(* Only what a client may upload is ever at hand. *)
ImageIsAFile == call.of = "image" => call.file \in Files

LEMMA ImageStep ==
  ASSUME ImageIsAFile, [Next]_call
  PROVE  ImageIsAFile'
<1>1. CASE ReceiveImage
  BY <1>1 DEF ReceiveImage, ImageIsAFile
<1>2. CASE Next /\ ~ReceiveImage
  BY <1>2, AnswerOf DEF Next, ImageIsAFile
<1>3. CASE UNCHANGED call
  BY <1>3 DEF ImageIsAFile
<1> QED
  BY <1>1, <1>2, <1>3

LEMMA ServedStep ==
  ASSUME ServedAsItsContent, ImageIsAFile, [Next]_call
  PROVE  ServedAsItsContent'
<1>1. CASE StoreImage
  <2>1. PICK readable \in BOOLEAN :
          call' = [of |-> "storedImage", file |-> call.file,
                   name |-> Save(call.file, readable)]
    BY <1>1 DEF StoreImage
  <2> DEFINE file == call.file
             format == imageFormatOfFile(BytesOf(file), readable)
  <2> SUFFICES ASSUME Save(file, readable) # NotAnImage
               PROVE  /\ contentType(Save(file, readable)) = TypeOfKind[file.kind]
                      /\ file.kind \in DOMAIN ImageFormats /\ ~file.cut
    BY <2>1 DEF ServedAsItsContent
  <2>2. file \in Files
    BY <1>1 DEF StoreImage, ImageIsAFile
  <2>3. format # NoFormat /\ Save(file, readable) = <<"uuid", Dot, ImageFormats[format]>>
    BY DEF Save, ExtensionOf
  <2>4. format = file.kind /\ file.kind \in DOMAIN ImageFormats /\ ~file.cut
    BY <2>2, <2>3, FormatOfFile
  <2>5. file.kind \in {"jpeg", "png", "webp"}
    BY <2>4 DEF ImageFormats
  <2>6. getExtension(Save(file, readable)) = <<ImageFormats[file.kind]>>
    <3>1. ImageFormats[file.kind] # Dot /\ ImageFormats[file.kind] # Query
      BY <2>5 DEF ImageFormats, Dot, Query
    <3> QED
      BY <2>3, <2>4, <3>1, ExtensionAfterTheDot
  <2>7. contentType(Save(file, readable)) = TypeOfKind[file.kind]
    BY <2>5, <2>6 DEF contentType, ImageFormats, TypeOfKind
  <2> QED
    BY <2>4, <2>7
<1>2. CASE Next /\ ~StoreImage
  BY <1>2, AnswerOf DEF Next, ServedAsItsContent
<1>3. CASE UNCHANGED call
  BY <1>3 DEF ServedAsItsContent
<1> QED
  BY <1>1, <1>2, <1>3

(* HelperCalls.ServedAsItsContent: whatever name it came under, and        *)
(* whichever of the two reads failed (image_store.ts:25-36).                *)
THEOREM ImagesAreServedAsTheyAre == Spec => []ServedAsItsContent
<1>1. Init => ImageIsAFile /\ ServedAsItsContent
  BY DEF Init, NoCall, ImageIsAFile, ServedAsItsContent
<1> QED
  BY <1>1, ImageStep, ServedStep, PTL DEF Spec
===============================================================================
