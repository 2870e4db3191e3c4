----------------------------- MODULE Description -----------------------------
(***************************************************************************)
(* rest_framework/schemas.py: how SchemaGenerator.get_description turns a  *)
(* method docstring, or the `header:` sections of a view's description,   *)
(* into a link description.                                                *)
(*                                                                         *)
(* Text is a sequence of tokens: words, ":", " " (a run of spaces) and     *)
(* "\n".  A word is a maximal run of other characters, so two words are    *)
(* never adjacent in a line written by hand; when the code concatenates    *)
(* two lines, their words meet.  Identifiers is the set of words that      *)
(* header_regex's [a-zA-Z][0-9A-Za-z_]* matches in full.                   *)
(***************************************************************************)
EXTENDS Sequences, SequencesExt

CONSTANT Identifiers

Space == " "
Colon == ":"
NL == "\n"
Whitespace == {Space, NL}

\* str.lstrip() and str.strip(): drop whitespace at the ends.
RECURSIVE lstrip(_)
lstrip(s) == IF s # <<>> /\ Head(s) \in Whitespace THEN lstrip(Tail(s)) ELSE s

strip(s) == Reverse(lstrip(Reverse(lstrip(s))))

(***************************************************************************)
(* str.splitlines(): lines split at "\n", with no empty line after a       *)
(* final "\n"; and '\n'.join(lines), its inverse.                          *)
(***************************************************************************)
SplitStep(acc, t) ==
    IF t = NL THEN [lines |-> Append(acc.lines, acc.cur), cur |-> <<>>, open |-> FALSE]
    ELSE [lines |-> acc.lines, cur |-> Append(acc.cur, t), open |-> TRUE]

splitlines(text) ==
    LET r == FoldLeft(SplitStep, [lines |-> <<>>, cur |-> <<>>, open |-> FALSE], text)
    IN  IF r.open THEN Append(r.lines, r.cur) ELSE r.lines

join(lines) ==
    FlattenSeq([i \in DOMAIN lines |-> IF i = 1 THEN lines[i] ELSE <<NL>> \o lines[i]])

(***************************************************************************)
(* formatting.dedent: if every non-blank line after the first is           *)
(* indented, the common indentation is removed from every line (re.sub     *)
(* with ^ in MULTILINE mode); then the text is stripped.  One " " token    *)
(* stands for the common indentation.                                      *)
(***************************************************************************)
dedent(text) ==
    LET ls == splitlines(text)
        counted == {i \in 2..Len(ls) : lstrip(ls[i]) # <<>>}
        indented == counted # {} /\ \A i \in counted : Head(ls[i]) = Space
        unindent(l) == IF l # <<>> /\ Head(l) = Space THEN Tail(l) ELSE l
    IN  strip(IF indented THEN join([i \in DOMAIN ls |-> unindent(ls[i])]) ELSE text)

\* views.get_view_description (html=False): the dedented class docstring,
\* '' when the class has none.
get_view_description(class_doc) == dedent(class_doc)

\* header_regex = re.compile('^[a-zA-Z][0-9A-Za-z_]*:'), matched at the
\* start of an already stripped line.
header_match(line) ==
    Len(line) >= 2 /\ line[1] \in Identifiers /\ line[2] = Colon

(***************************************************************************)
(* The loop of get_description over the stripped lines.  A header line     *)
(* partitions at its first ':' (the one after the identifier), makes its   *)
(* name the current section and sets that section to the stripped lead;    *)
(* any other line is appended to the current section with a '\n'.          *)
(***************************************************************************)
\* Variant appending a repeated header's lead to the section instead of
\* resetting it.  DescriptionChoosesSection fails with it.
SectionStep_append(acc, line) ==
    IF header_match(line)
    THEN [current  |-> line[1],
          sections |-> IF line[1] \in DOMAIN acc.sections
                       THEN [acc.sections EXCEPT ![line[1]] = @ \o strip(SubSeq(line, 3, Len(line)))]
                       ELSE (line[1] :> strip(SubSeq(line, 3, Len(line)))) @@ acc.sections]
    ELSE [acc EXCEPT !.sections[acc.current] = @ \o line \o <<NL>>]

SectionStep(acc, line) ==
    IF header_match(line)
    THEN [current  |-> line[1],
          sections |-> (line[1] :> strip(SubSeq(line, 3, Len(line)))) @@ acc.sections]
    ELSE [acc EXCEPT !.sections[acc.current] = @ \o line \o <<NL>>]

sections(lines) ==
    FoldLeft(SectionStep, [current |-> "", sections |-> ("" :> <<>>)], lines).sections

(***************************************************************************)
(* The body of get_description once the method name is known.  docs maps   *)
(* each method of the view class that has a docstring to it.  A non-empty  *)
(* method docstring wins; otherwise the class description is split into    *)
(* sections and the one named like the method (the `header`, which is the *)
(* same getattr(view, 'action', method.lower())) is returned, or else the  *)
(* unlabelled one.                                                         *)
(***************************************************************************)
describe(docs, method_name, class_doc) ==
    IF method_name \in DOMAIN docs /\ docs[method_name] # <<>>
    THEN dedent(docs[method_name])
    ELSE LET ls == splitlines(get_view_description(class_doc))
             s  == sections([i \in DOMAIN ls |-> strip(ls[i])])
         IN  IF method_name \in DOMAIN s THEN strip(s[method_name]) ELSE strip(s[""])

-----------------------------------------------------------------------------
(***************************************************************************)
(* Reference, from the design (spec section 4, step 5): a named section    *)
(* runs from its `name:` header line, the text after the colon being its   *)
(* first line, up to the next header line; the unlabelled section is what *)
(* precedes the first header.  Lines keep their line breaks.  A name given *)
(* twice takes its last section.                                           *)
(***************************************************************************)
SectionText(lines, name) ==
    LET starts == {i \in DOMAIN lines : header_match(lines[i])}
        from   == IF name = "" THEN 0 ELSE Max({i \in starts : lines[i][1] = name})
        to     == Min({i \in starts : i > from} \cup {Len(lines) + 1})
        lead   == IF name = "" THEN <<>> ELSE <<SubSeq(lines[from], 3, Len(lines[from]))>>
    IN  strip(join([i \in DOMAIN lead |-> strip(lead[i])] \o SubSeq(lines, from + 1, to - 1)))

ExpectedDescription(docs, method_name, class_doc) ==
    IF method_name \in DOMAIN docs /\ docs[method_name] # <<>>
    THEN dedent(docs[method_name])
    ELSE LET ls    == splitlines(get_view_description(class_doc))
             lines == [i \in DOMAIN ls |-> strip(ls[i])]
             named == \E i \in DOMAIN lines : header_match(lines[i]) /\ lines[i][1] = method_name
         IN  SectionText(lines, IF named THEN method_name ELSE "")

\* The characters of a text other than whitespace, in order.
NonBlank(t) == SelectSeq(t, LAMBDA x : x \notin Whitespace)

=============================================================================
