--------------------------- MODULE PreviewRouting ---------------------------
(***************************************************************************)
(* How the preview pane (src/src/views/preview/PreviewPane.tsx) picks the  *)
(* viewer of an object, and what each viewer asks the backend for.         *)
(*                                                                         *)
(* An object is seen as a record [mime, ext]: the class of its             *)
(* Content-Type and the class of its name.  The tables of the source map   *)
(* concrete types and extensions to these classes; a class stands for all  *)
(* the entries of one table.                                               *)
(***************************************************************************)
EXTENDS Integers

\* The Content-Types the router tells apart: the tables, the subtypes of
\* text/ that no table names ("text"), the other application/ types that are
\* code ("source"), application/octet-stream, no type, and any other one.
MimeClass == {"image", "video", "audio", "pdf", "html", "markdown", "archive",
              "table", "csvtext", "json", "text", "source", "octet", "none", "other"}

\* The names: the extension tables, the languages the highlighter knows,
\* plain text (logs, configuration), names without an extension that are
\* nearly always text (README, Makefile), and all the rest.
ExtClass == {"image", "video", "audio", "pdf", "html", "markdown", "archive",
             "table", "hex", "code", "plain", "bare", "none"}

Object == [mime : MimeClass, ext : ExtClass]

-----------------------------------------------------------------------------
(* The detectors: the type first, then the name.                           *)

IsImage(o)    == o.mime = "image"    \/ o.ext = "image"
IsVideo(o)    == o.mime = "video"    \/ o.ext = "video"
IsAudio(o)    == o.mime = "audio"    \/ o.ext = "audio"
IsPdf(o)      == o.mime = "pdf"      \/ o.ext = "pdf"
IsHtml(o)     == o.mime = "html"     \/ o.ext = "html"
IsMarkdown(o) == o.mime = "markdown" \/ o.ext = "markdown"
IsArchive(o)  == o.mime = "archive"  \/ o.ext = "archive"
IsTabular(o)  == o.ext = "table" \/ o.mime \in {"table", "csvtext"}

\* isTextMime: names that have a viewer of their own and known binaries are
\* out; then a type that is text decides; a missing type, or octet-stream,
\* leaves it to the name; any other type is not text.
IsText(o) ==
  /\ o.ext \notin {"markdown", "html", "hex"}
  /\ \/ o.mime \in {"text", "csvtext", "source", "json"}
     \/ /\ o.mime \in {"octet", "none"}
        /\ o.ext \in {"code", "plain", "bare"}

\* isHexMime: known binaries, and octet-stream that is no archive and no text.
IsHex(o) ==
  \/ o.ext = "hex"
  \/ o.mime = "octet" /\ ~IsArchive(o) /\ ~IsText(o)

\* isEditable: what "Edit in Monaco" is offered for.
IsEditable(o) ==
  /\ ~(IsImage(o) \/ IsVideo(o) \/ IsAudio(o) \/ IsPdf(o) \/ IsArchive(o) \/ IsHex(o))
  /\ IsText(o) \/ IsHtml(o) \/ IsMarkdown(o) \/ IsTabular(o) \/ o.mime = "json"

-----------------------------------------------------------------------------
(* What a viewer asks for when it is mounted: the body of the object, or a *)
(* token for the loopback media server; whether the answer is handed to a  *)
(* worker; whether the viewer asks again by itself when the element that   *)
(* plays the object fails.                                                 *)

Asks(what, worker, again) == [asks |-> what, worker |-> worker, again |-> again]

ImagePreview    == Asks("token", FALSE, FALSE)
MediaPreview    == Asks("token", FALSE, TRUE)
PdfPreview      == Asks("token", FALSE, FALSE)
HtmlPreview     == Asks("body", FALSE, FALSE)
MarkdownPreview == Asks("body", FALSE, FALSE)
ArchivePreview  == Asks("body", FALSE, FALSE)
TablePreview    == Asks("body", TRUE, FALSE)
TextPreview     == Asks("body", FALSE, FALSE)
HexPreview      == Asks("body", FALSE, FALSE)

\* renderContent: the first detector that answers decides; what nothing
\* recognises is shown as text.
RenderContent(o) ==
  LET Branch == << <<IsImage(o), "image">>, <<IsVideo(o), "video">>, <<IsAudio(o), "audio">>,
                   <<IsPdf(o), "pdf">>, <<IsHtml(o), "html">>, <<IsMarkdown(o), "markdown">>,
                   <<IsArchive(o), "archive">>, <<IsTabular(o) \/ o.mime = "json", "table">>,
                   <<IsText(o), "text">>, <<IsHex(o), "hex">>, <<TRUE, "text">> >>
      first  == CHOOSE i \in DOMAIN Branch :
                  Branch[i][1] /\ \A j \in 1 .. i - 1 : ~Branch[j][1]
  IN  Branch[first][2]

Viewer == [image |-> ImagePreview, video |-> MediaPreview, audio |-> MediaPreview,
           pdf |-> PdfPreview, html |-> HtmlPreview, markdown |-> MarkdownPreview,
           archive |-> ArchivePreview, table |-> TablePreview, text |-> TextPreview,
           hex |-> HexPreview]
=============================================================================
