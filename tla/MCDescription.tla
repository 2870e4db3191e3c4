---------------------------- MODULE MCDescription ----------------------------
(***************************************************************************)
(* get_description over every small view: each class docstring of up to   *)
(* three lines built from the words "list", "get" (identifiers) and "9x"   *)
(* (not one), ":" and indentation; a method docstring that is absent,      *)
(* empty or present; and a method name (a viewset action or a plain        *)
(* view's lower-cased method) that may or may not name a section.          *)
(***************************************************************************)
EXTENDS Description

MCIdentifiers == {"list", "get"}

Words == MCIdentifiers \cup {"9x"}

\* Lines as a docstring writer types them: short runs of tokens, header
\* lines with a lead, and indented headers.
DocLines ==
    BoundedSeq(Words \cup {Colon, Space}, 2)
      \cup {<<w, Colon, v>> : w \in MCIdentifiers, v \in {"list", "9x"}}
      \cup {<<Space, w, Colon>> : w \in MCIdentifiers}

ClassDocs == {join(ls) : ls \in BoundedSeq(DocLines, 3)}

\* The view's docstrings by method: none, an empty one, or "get" on the
\* line after the opening quotes.
MethodDocs == {<<>>, "list" :> <<>>, "list" :> <<NL, Space, "get">>}

MethodNames == {"list", "get"}

VARIABLES docs, class_doc, method_name

vars == <<docs, class_doc, method_name>>

Init ==
    /\ docs \in MethodDocs
    /\ class_doc \in ClassDocs
    /\ method_name \in MethodNames

\* The inputs are fixed; each state is one call of get_description.
Next == UNCHANGED vars

Spec == Init /\ [][Next]_vars

(***************************************************************************)
(* get_description returns the method's own docstring when it has one,    *)
(* and otherwise the section of the class description named after the     *)
(* action or method (the last one, if the name is repeated), or else the  *)
(* text before the first section header: the same characters, in the same *)
(* order, as the design's reading of the sections.  This is what the       *)
(* header_regex match, the partition at ':', the reset of a section on its *)
(* header and the fallback to sections[''] must together achieve.         *)
(***************************************************************************)
DescriptionChoosesSection ==
    NonBlank(describe(docs, method_name, class_doc))
        = NonBlank(ExpectedDescription(docs, method_name, class_doc))

(***************************************************************************)
(* The design: a section's text is its lines as written, so the text after *)
(* `name:` and the line below it stay separate lines.  The code sets the   *)
(* section to the stripped lead and then appends `line + '\n'`, with no    *)
(* newline between the lead and the first appended line.                   *)
(***************************************************************************)
DescriptionKeepsLineBreaks ==
    describe(docs, method_name, class_doc) = ExpectedDescription(docs, method_name, class_doc)

=============================================================================
