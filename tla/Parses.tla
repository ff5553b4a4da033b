------------------------------- MODULE Parses -------------------------------
(***************************************************************************)
(* The file-parser plugin (router.rs, parse_file_parts; media/pdf.rs): a   *)
(* document a client attaches is turned into text before its turn is       *)
(* routed, a page that holds none of its own is read by a model, and what  *)
(* was parsed is kept for good under the hash of the document's bytes.     *)
(* Turns run side by side, and a client attaches its documents again with  *)
(* every turn.                                                             *)
(***************************************************************************)
EXTENDS Integers, SequencesExt

CONSTANTS
  Documents,   \* a document to its pages: "typed", "thin" (some characters), or "blank"
  PageLimits,  \* what [plugins.file_parser] max_pages may be
  Parsers      \* turns with documents, at a time

Engines == {"auto", "ocr", "pdftotext"}

ASSUME ParsesAssumption ==
  /\ PageLimits \subseteq Nat
  /\ \A d \in DOMAIN Documents : Documents[d] \in Seq({"typed", "thin", "blank"})

VARIABLES
  parsed,  \* the rows file_parse:<hash>: a document to its text
  parse,   \* where each turn is with its documents
  plugin   \* [plugins.file_parser]: enabled, whether there is an ocr_model, max_pages

parsesVars == <<parsed, parse, plugin>>

Plugins == [enabled : BOOLEAN, reader : BOOLEAN, pages : PageLimits]

\* A turn is told of a document what it was read as, or the one line that says why it was not;
\* or it is sent the part as it is, which may be no text.
Unread == <<"unread">>
AsItIs == <<"as it is">>
NotParsing == [step |-> "idle", doc |-> "none", engine |-> "auto", out |-> <<>>, complete |-> TRUE]

\* The number of pages that are parsed, and what is said of the others.
Taken(doc, limit) == IF Len(Documents[doc]) <= limit THEN Len(Documents[doc]) ELSE limit
Cut(doc, limit) == IF Len(Documents[doc]) > limit THEN <<"more pages">> ELSE <<>>

\* page: which pages the model is to read.
Wants(engine, page) ==
  \/ engine = "ocr"
  \/ engine = "auto" /\ page \in {"thin", "blank"}

\* What poppler makes of a page.
Extracted(page) == IF page = "blank" THEN "no text" ELSE "text"

\* What is said of a page, and whether it is what was wanted: poppler's text stands in for a
\* leg that failed.
Sections(engine, page) ==
  IF Wants(engine, page) /\ plugin.reader THEN {<<"read", TRUE>>, <<Extracted(page), FALSE>>}
  ELSE {<<Extracted(page), TRUE>>}

\* The types of part a document comes in: a chat client has "file", so has a Responses client once
\* its body is a chat body, and an Anthropic client has "document".
Parts == {"file", "document"}

\* What a turn is told of one of its parts; it goes on to the next.
Told(q, doc, out) == [q EXCEPT !.step = "told", !.doc = doc, !.out = out]

\* parse_file_parts: a turn comes with the engine its client asked for.  Nothing is parsed for the
\* leg of a meta-tool, nor with the plugin off: all its parts go on as they are.
Comes(p) ==
  /\ parse[p].step \in {"idle", "told"}
  /\ \E engine \in Engines, leg \in BOOLEAN :
       parse' = [parse EXCEPT ![p] =
         IF leg \/ ~plugin.enabled THEN Told(NotParsing, "none", AsItIs)
         ELSE [NotParsing EXCEPT !.step = "parts", !.engine = engine]]
  /\ UNCHANGED <<parsed, plugin>>

\* The next part, up to its parse: another type is passed over; the bytes cannot be had or are no
\* PDF; they were parsed before, or were not, or the row cannot be read.
Attaches(p) ==
  /\ parse[p].step = "parts" \/ (parse[p].step = "told" /\ parse[p].doc # "none")
  /\ \E doc \in DOMAIN Documents, part \in Parts :
       \/ part # "file" /\ parse' = [parse EXCEPT ![p] = Told(@, doc, AsItIs)]
       \/ part = "file" /\ parse' = [parse EXCEPT ![p] = Told(@, doc, Unread)]
       \/ part = "file" /\ doc \in DOMAIN parsed /\ parse' = [parse EXCEPT ![p] = Told(@, doc, parsed[doc])]
       \/ /\ part = "file"
          /\ parse' = [parse EXCEPT ![p].step = "pages", ![p].doc = doc, ![p].out = <<>>, ![p].complete = TRUE]
  /\ UNCHANGED <<parsed, plugin>>

\* The file cannot be staged, or poppler cannot read it or is not there.
Fails(p) ==
  /\ parse[p].step = "pages" /\ parse[p].out = <<>>
  /\ parse' = [parse EXCEPT ![p] = Told(@, @.doc, Unread)]
  /\ UNCHANGED <<parsed, plugin>>

ReadsPage(p) ==
  /\ parse[p].step = "pages"
  /\ Len(parse[p].out) < Taken(parse[p].doc, plugin.pages)
  /\ \E section \in Sections(parse[p].engine, Documents[parse[p].doc][Len(parse[p].out) + 1]) :
       parse' = [parse EXCEPT ![p].out = Append(@, section[1]), ![p].complete = @ /\ section[2]]
  /\ UNCHANGED <<parsed, plugin>>

\* A parse with a failed leg is served, not kept; a row may fail to be written.
IsKept(p) == parse[p].complete

\* kv_set: the row of the document is there, whatever it was.
Keeping(doc, out) == [d \in DOMAIN parsed \cup {doc} |-> IF d = doc THEN out ELSE parsed[d]]

Ends(p) ==
  /\ parse[p].step = "pages"
  /\ Len(parse[p].out) = Taken(parse[p].doc, plugin.pages)
  /\ LET doc == parse[p].doc
         out == parse[p].out \o Cut(doc, plugin.pages)
     IN  /\ parse' = [parse EXCEPT ![p] = Told(@, doc, out)]
         /\ \/ IsKept(p) /\ parsed' = Keeping(doc, out)
            \/ UNCHANGED parsed
  /\ UNCHANGED plugin

\* pxy starts again, on a configuration that may have changed.
Reconfigures ==
  /\ parse' = [p \in Parsers |-> NotParsing]
  /\ plugin' \in Plugins
  /\ UNCHANGED parsed

ParsesInit ==
  /\ parsed = <<>>
  /\ parse = [p \in Parsers |-> NotParsing]
  /\ plugin \in Plugins

ParsesNext ==
  \/ \E p \in Parsers : Comes(p) \/ Attaches(p) \/ Fails(p) \/ ReadsPage(p) \/ Ends(p)
  \/ Reconfigures

-----------------------------------------------------------------------------
(* What is promised of it.                                                 *)

\* The text of a document when nothing goes wrong.
Faultless(doc, engine, reads, limit) ==
  [n \in 1 .. Taken(doc, limit) |->
     IF reads /\ Wants(engine, Documents[doc][n]) THEN "read" ELSE Extracted(Documents[doc][n])]
  \o Cut(doc, limit)

\* pdf.rs, Parsed: a leg that failed is not remembered, whoever else parses the same bytes.
\* Neither the engine is part of the key, nor the plugin's settings: what is kept is what the
\* last faultless parse said.
KeepsFaultless ==
  \A doc \in DOMAIN parsed :
    \E engine \in Engines, reads \in BOOLEAN, limit \in PageLimits :
      parsed[doc] = Faultless(doc, engine, reads, limit)

\* A model is told of every page of a document, in order, or that there are more, or in one
\* line why it was told nothing: never nothing (router.rs, parse_file_parts).
TellsAll(doc, out) ==
  \E limit \in PageLimits :
    /\ Len(out) = Taken(doc, limit) + Len(Cut(doc, limit))
    /\ \A n \in 1 .. Taken(doc, limit) : out[n] \in {"read", Extracted(Documents[doc][n])}

ToldOfAll ==
  \A p \in Parsers :
    parse[p].step = "told" /\ parse[p].out \notin {Unread, AsItIs} => TellsAll(parse[p].doc, parse[p].out)

ParsesKept == KeepsFaultless /\ ToldOfAll
=============================================================================
