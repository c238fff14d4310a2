----------------------------- MODULE ImageUpload -----------------------------
(***************************************************************************)
(* An image is known by its first bytes (common/utils/image_signature.ts), *)
(* read by the validator (validators/image_file.ts) and again when it is   *)
(* stored (services/image_store.ts), under a name whose extension tells    *)
(* what it is: to file_agent.ts, and to @adonisjs/static, which serves it.  *)
(* The bytes are the same at both reads.  No route uses the store yet.      *)
(***************************************************************************)
EXTENDS Integers, Sequences

HeaderBytes == 12

StartsWith(bytes, at, signature) ==
  \A k \in DOMAIN signature : bytes[at + k - 1] = signature[k]

Jpeg == <<255, 216, 255>>
Png == <<137, 80, 78, 71, 13, 10, 26, 10>>
Riff == <<82, 73, 70, 70>>
WebpMark == <<87, 69, 66, 80>>

NoFormat == "null"

(* Faulty: any RIFF container is taken for a WebP. *)
AnyRiff(header) == StartsWith(header, 1, Riff)

IsWebp(header) == StartsWith(header, 1, Riff) /\ StartsWith(header, 9, WebpMark)

imageFormatOf(header) ==
  IF Len(header) < HeaderBytes THEN NoFormat
  ELSE IF StartsWith(header, 1, Jpeg) THEN "jpeg"
  ELSE IF StartsWith(header, 1, Png) THEN "png"
  ELSE IF IsWebp(header) THEN "webp"
  ELSE NoFormat

bytesRead(bytes) == IF Len(bytes) > HeaderBytes THEN HeaderBytes ELSE Len(bytes)

(* A file that cannot be read is no image. *)
imageFormatOfFile(bytes, readable) ==
  IF readable
  THEN imageFormatOf(SubSeq(bytes, 1, bytesRead(bytes)))
  ELSE NoFormat

ImageFormats == [jpeg |-> "jpg", png |-> "png", webp |-> "webp"]
ImageExtnames == {ImageFormats[format] : format \in DOMAIN ImageFormats}

-------------------------------------------------------------------------------
(* Names: a sequence of words, dots and question marks. *)

Dot == "."
Query == "?"

After(name, mark) ==
  LET marks == {i \in DOMAIN name : name[i] = mark} IN
  IF marks = {} THEN name
  ELSE SubSeq(name, 1 + CHOOSE i \in marks : \A j \in marks : j <= i, Len(name))
Before(name, mark) ==
  LET marks == {i \in DOMAIN name : name[i] = mark} IN
  IF marks = {} THEN name
  ELSE SubSeq(name, 1, (CHOOSE i \in marks : \A j \in marks : i <= j) - 1)

getExtension(name) == Before(After(name, Dot), Query)

(* The types file_agent knows, of those an upload may be.  The static      *)
(* server is taken to agree with it on the extensions that are stored.      *)
contentType(name) ==
  LET ext == getExtension(name) IN
  CASE ext = <<"webp">> -> "image/webp"
    [] ext = <<"png">> -> "image/png"
    [] ext \in {<<"jpg">>, <<"jpeg">>} -> "image/jpeg"
    [] ext = <<"gif">> -> "image/gif"
    [] ext = <<"wav">> -> "audio/wav"
    [] OTHER -> "application/octet-stream"

-------------------------------------------------------------------------------
(* What a client uploads: its content, cut short or not, and a name of its *)
(* choice.                                                                  *)
Kinds == {"jpeg", "png", "webp", "wave", "gif", "page"}
Wave == <<87, 65, 86, 69>>
Filler == <<1, 2, 3, 4, 5, 6, 7, 8, 9>>

Content(kind) ==
  CASE kind = "jpeg" -> Jpeg \o Filler
    [] kind = "png"  -> Png \o Filler
    [] kind = "webp" -> Riff \o <<9, 9, 9, 9>> \o WebpMark
    [] kind = "wave" -> Riff \o <<9, 9, 9, 9>> \o Wave
    [] kind = "gif"  -> <<71, 73, 70, 56>> \o Filler
    [] kind = "page" -> <<60, 104, 116, 109>> \o Filler
TypeOfKind ==
  [jpeg |-> "image/jpeg", png |-> "image/png", webp |-> "image/webp",
   wave |-> "audio/wav", gif |-> "image/gif", page |-> "text/html"]

Files == [kind : Kinds, cut : BOOLEAN, claimed : {"jpg", "png", "webp", "wav", "html"},
          hasTmpPath : BOOLEAN]
BytesOf(file) ==
  IF file.cut THEN SubSeq(Content(file.kind), 1, HeaderBytes - 1) ELSE Content(file.kind)

(* AdonisJS: MultipartFile.extname is that of the content, or, should it   *)
(* not recognise it, that of the client.                                    *)
Detected ==
  [jpeg |-> {"jpg"}, png |-> {"png"}, webp |-> {"webp"}, wave |-> {"wav"},
   gif |-> {"gif"}, page |-> {}]
Extnames(file) == Detected[file.kind] \union {file.claimed}

(* imageFile: the extension, then the signature; a file that did not reach *)
(* the disk is left to the store.                                           *)
ImageFileAccepts(file, extname, readable) ==
  /\ extname \in ImageExtnames
  /\ file.hasTmpPath => imageFormatOfFile(BytesOf(file), readable) # NoFormat

(* Faulty: the file keeps the extension the client gave it. *)
ClaimedExtension(file, format) == file.claimed

ExtensionOf(file, format) == ImageFormats[format]

(* ImageStore.save: the name it stores under, or none. *)
NotAnImage == <<>>
Save(file, readable) ==
  LET format == imageFormatOfFile(BytesOf(file), readable) IN
  IF ~file.hasTmpPath \/ format = NoFormat THEN NotAnImage
  ELSE <<"uuid", Dot, ExtensionOf(file, format)>>
===============================================================================
