----------------------------- MODULE Localisation -----------------------------
(***************************************************************************)
(* The languages of the platform and the fallback between them             *)
(* (common/utils/localized_text.ts), the language a request asks for       *)
(* (request_lang.ts), the refusals of the routes (exceptions/*.ts, and the *)
(* validators of the controllers), and a translated field on its way in:   *)
(* trimmed by the body parser, checked by validators/localized_text.ts,    *)
(* explained by validator_messages.ts - which no route of this service     *)
(* installs.  Wording is left out: a text is the language it is written in.*)
(***************************************************************************)
EXTENDS Integers, Sequences

(* CONTENT_LOCALES; PlatformLang is derived from it. *)
ContentLocales == {"fr", "en", "ee"}

LocaleFallbacks == [fr |-> <<"fr">>, en |-> <<"en">>, ee |-> <<"ee", "fr">>]

Chain(locale) == IF locale \in ContentLocales THEN LocaleFallbacks[locale] ELSE <<>>

(* A translation is missing, empty, blank, or text in its language. *)
Missing == "missing"
Empty == "empty"
Blank == "blank"

(* Faulty: ?? takes an empty translation for one. *)
NaivelyThere(translation) == translation # Missing

IsThere(translation) == translation \notin {Missing, Empty}

(* The first language of the chain that has one. *)
pickTranslation(translations, locale, fallback) ==
  LET chain == Chain(locale)
      there == {i \in DOMAIN chain : IsThere(translations[chain[i]])} IN
  IF there = {} THEN fallback
  ELSE translations[chain[CHOOSE i \in there : \A j \in there : i <= j]]

pickLocalized(map, locale) == pickTranslation(map, locale, map.fr)

-------------------------------------------------------------------------------
(* Who is answered, and in which language. *)

isPlatformLang(raw) == raw \in ContentLocales

(* The first two letters of Accept-Language, in lower case; none without. *)
resolveLang(tag) == IF isPlatformLang(tag) THEN tag ELSE "en"

(* The messages of the code: { en, fr }, and { fr, default } in English.   *)
ServerMessage == [fr |-> "fr", en |-> "en", ee |-> Missing]
ValidationMessage == [fr |-> "fr", en |-> Missing, ee |-> Missing]
Default == "en"

(* I18nException: the 409 of a deletion. *)
InProgressText(lang) == pickTranslation(ServerMessage, lang, ServerMessage.en)
(* RessourceNotExistsException and UnauthencatedException decide alone.    *)
NotExistsText(lang) == IF lang = "fr" THEN "fr" ELSE "en"
UnauthencatedText(lang) == IF lang = "fr" THEN "fr" ELSE "en"
(* ValidatorMessages.getMessage *)
ValidationText(lang) == pickTranslation(ValidationMessage, lang, Default)

(* VineJS' own words, whatever the language. *)
VineText == "en"

(* A route's: its validators have no messages provider. *)
RefusalText(status, lang) ==
  CASE status = 401 -> UnauthencatedText(lang)
    [] status = 404 -> NotExistsText(lang)
    [] status = 409 -> InProgressText(lang)
    [] status = 422 -> VineText

-------------------------------------------------------------------------------
(* A translated field. *)

(* What may be sent for one language of it; "long" exceeds maxLength. *)
Sent == {Missing, Empty, Blank, "text", "long", "number"}

(* trimWhitespaces and convertEmptyStringsToNull; null counts as missing. *)
Parsed(value) == IF value \in {Empty, Blank} THEN Missing ELSE value

(* vine.string().trim().minLength(1), with maxLength if the field has one. *)
BrokenRules(locale, value, bounded) ==
  CASE value = Missing -> IF locale = "fr" THEN {"required"} ELSE {}
    [] value = "number" -> {"string"}
    [] value \in {Empty, Blank} -> {"minLength"}
    [] value = "long" -> IF bounded THEN {"maxLength"} ELSE {}
    [] OTHER -> {}

(* What was sent for the field is no map: nothing, or something else.      *)
NoMapErrors(value) == {<<"field", IF value = Missing THEN "required" ELSE "object">>}

(* Every rule that a map breaks, with the language it is broken in. *)
Errors(field, bounded) ==
  UNION {{<<locale, rule>> : rule \in BrokenRules(locale, field[locale], bounded)} :
           locale \in ContentLocales}

(* What an accepted field is stored as. *)
Stored(field) ==
  [l \in ContentLocales |-> IF field[l] = Missing THEN Missing ELSE l]

(* Faulty: a bound is enforced that nothing explains. *)
UnboundedMessages(bounded) ==
  {<<"field", "object">>, <<"fr", "required">>} \union (ContentLocales \X {"minLength"})

(* localizedTextMessages: the errors that have a message of their own.     *)
localizedTextMessages(bounded) ==
  {<<"field", "object">>, <<"fr", "required">>} \union (ContentLocales \X {"minLength"})
    \union (IF bounded THEN ContentLocales \X {"maxLength"} ELSE {})

(* getProvider: the rules that have one whatever the field. *)
BaseMessages ==
  {"required", "string", "number", "email", "uuid", "exists", "unique", "min", "max",
   "positive", "database.exists", "database.unique", "normalizedEmail",
   "normalizedPhone", "withoutDecimals"}

(* The message of the field, that of the rule, or VineJS' own. *)
Explained(error, bounded) ==
  error \in localizedTextMessages(bounded) \/ error[2] \in BaseMessages
ErrorText(error, bounded, lang) ==
  IF Explained(error, bounded) THEN ValidationText(lang) ELSE VineText
===============================================================================
