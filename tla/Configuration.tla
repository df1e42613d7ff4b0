---------------------------- MODULE Configuration ----------------------------
(***************************************************************************)
(* Configuration files: the scanner and the recursive descent parser       *)
(* (confparser.c), the configuration they fill (conf.c), and writing it    *)
(* back to a file.                                                         *)
(*                                                                         *)
(* A file is a sequence of lines, a line a sequence of lexemes: words,     *)
(* quoted strings, integers, punctuation, blanks, comments and newlines,   *)
(* and "junk" for any other character.  Texts are model values.            *)
(***************************************************************************)
EXTENDS Integers, Sequences, SequencesExt

CONSTANTS
    Start,      \* the sequences of files the daemon may find; NULL: one that cannot be opened
    NewValues,  \* values a program may give to a key that exists
    Meaning,    \* Meaning[l]: what line l of a file says
    Bare,       \* Bare[t]: what the scanner sees of text t when it is written without quotes
    Atoi,       \* Atoi[t]: the int that atoi makes of the digits t, as "%d" writes it
    NULL

Lexeme(t, v) == [t |-> t, v |-> v]
Newline == Lexeme("newline", "")
Blank == Lexeme("blank", "")
Punctuation == {"[", "]", "=", ","}            \* "," stands for ";" too

Value(type, items) == [type |-> type, items |-> items]
Void == Value("void", <<>>)
Token(token, text, rest) == [token |-> token, text |-> text, rest |-> rest]
NoToken == Token("EOF", "", <<>>)

VARIABLES
    conf,      \* sequence of sections, each with its keys and values, in order of appearance
    files,     \* files still to load
    loaded,    \* files that were loaded, NULL once conf is not only what they say
    at,        \* where the parser is: idle, or what it expects next
    look,      \* lookahead token, its text, and the lexemes behind it
    section, key, value,
    saved      \* the configuration that was saved and is being loaded again

pVars == <<at, look, section, key, value>>
confVars == <<conf, files, loaded, pVars, saved>>

Init ==
    /\ conf = <<>> /\ files \in Start /\ loaded = <<>> /\ saved = NULL
    /\ at = "idle" /\ look = NoToken /\ section = NULL /\ key = NULL /\ value = Void

-----------------------------------------------------------------------------
(* The scanner.                                                            *)

\* From S_INITIAL.  A blank also takes the newlines that follow it; a word or an integer needs
\* a further character to end it; behind "=" nothing but a value is accepted.
scanner_get_next_token(rest, previous) ==
    LET n == Len(rest)
        From(i) == SubSeq(rest, i, n)
        Space[i \in 1..n + 1] ==
            IF i <= n /\ rest[i].t \in {"blank", "newline"} THEN Space[i + 1] ELSE i
        Initial[i \in 1..n + 1] ==
            IF i > n THEN NoToken
            ELSE CASE rest[i].t = "blank"   -> Initial[Space[i]]
                   [] rest[i].t = "comment" -> Initial[i + 1]
                   [] rest[i].t = "newline" /\ previous = "=" -> Token("NONE", "", From(i))
                   [] rest[i].t \in Punctuation \cup {"junk"} /\ previous = "=" -> Token("ERROR", "", From(i))
                   [] rest[i].t \in {"newline", "junk"} /\ previous # "=" -> Initial[i + 1]
                   [] rest[i].t \in Punctuation /\ previous # "=" -> Token(rest[i].t, "", From(i + 1))
                   [] rest[i].t = "quoted"  -> Token("STRING", rest[i].v, From(i + 1))
                   [] rest[i].t \in {"word", "int"} ->
                        IF i = n THEN Token("EOF", rest[i].v, <<>>)
                        ELSE Token(IF rest[i].t = "word" THEN "STRING" ELSE "INTEGER", rest[i].v, From(i + 1))
    IN  Initial[1]

-----------------------------------------------------------------------------
(* The parser: one action per nonterminal of the grammar.                  *)

\* longjmp, and a6o_conf_parser_free: what was read is dropped, what was defined stays.
Leave ==
    /\ at' = "idle" /\ look' = NoToken /\ section' = NULL /\ key' = NULL /\ value' = Void

Accepted(token, next) ==
    /\ look' = scanner_get_next_token(look.rest, token)
    /\ at' = next

a6o_conf_load_file ==
    /\ at = "idle" /\ files # <<>>
    /\ files' = Tail(files)
    /\ loaded' = IF loaded = NULL THEN NULL ELSE Append(loaded, Head(files))
    /\ IF Head(files) = NULL
          THEN UNCHANGED <<at, look>>
          ELSE /\ look' = scanner_get_next_token(FlattenSeq(Head(files)), "NONE")
               /\ at' = "section_list"
    /\ UNCHANGED <<conf, saved, section, key, value>>

r_section_list ==
    /\ at = "section_list"
    /\ IF look.token = "[" THEN Accepted("[", "section_name") /\ UNCHANGED <<section, key, value>>
                           ELSE Leave
    /\ UNCHANGED <<conf, files, loaded, saved>>

r_section_name ==
    /\ at = "section_name"
    /\ \/ /\ look.token = "STRING" /\ Accepted("STRING", "right_brace")
          /\ section' = look.text /\ UNCHANGED <<key, value>>
       \/ look.token # "STRING" /\ Leave
    /\ UNCHANGED <<conf, files, loaded, saved>>

r_section ==
    /\ at = "right_brace"
    /\ IF look.token = "]" THEN Accepted("]", "definition_list") /\ UNCHANGED <<section, key, value>>
                           ELSE Leave
    /\ UNCHANGED <<conf, files, loaded, saved>>

\* r_definition_list and r_key.
r_definition_list ==
    /\ at = "definition_list"
    /\ \/ /\ look.token = "STRING" /\ Accepted("STRING", "equal_sign")
          /\ key' = look.text /\ UNCHANGED <<section, value>>
       \/ /\ look.token # "STRING" /\ at' = "section_list" /\ UNCHANGED <<look, section, key, value>>
    /\ UNCHANGED <<conf, files, loaded, saved>>

r_definition ==
    /\ at = "equal_sign"
    /\ IF look.token = "=" THEN Accepted("=", "value") /\ UNCHANGED <<section, key, value>>
                           ELSE Leave
    /\ UNCHANGED <<conf, files, loaded, saved>>

r_value ==
    /\ at = "value"
    /\ \/ /\ look.token = "INTEGER" /\ Accepted("INTEGER", "callback")
          /\ value' = Value("int", <<Atoi[look.text]>>) /\ UNCHANGED <<section, key>>
       \/ /\ look.token = "STRING" /\ Accepted("STRING", "opt_string_list")
          /\ value' = Value("string", <<look.text>>) /\ UNCHANGED <<section, key>>
       \/ look.token \notin {"INTEGER", "STRING"} /\ Leave
    /\ UNCHANGED <<conf, files, loaded, saved>>

r_opt_string_list ==
    /\ at = "opt_string_list"
    /\ IF look.token = "," THEN Accepted(",", "list_string_value") /\ UNCHANGED <<section, key, value>>
                           ELSE at' = "callback" /\ UNCHANGED <<look, section, key, value>>
    /\ UNCHANGED <<conf, files, loaded, saved>>

\* Mutant: the element is kept although the list does not end well.
MutListTolerant ==
    /\ at = "list_string_value"
    /\ value' = Value("list", Append(value.items, look.text))
    /\ IF look.token = "STRING" THEN Accepted("STRING", "opt_string_list")
                                ELSE at' = "callback" /\ UNCHANGED look
    /\ UNCHANGED <<section, key, conf, files, loaded, saved>>

r_list_string_value ==
    /\ at = "list_string_value"
    /\ \/ /\ look.token = "STRING" /\ Accepted("STRING", "opt_string_list")
          /\ value' = Value("list", Append(value.items, look.text)) /\ UNCHANGED <<section, key>>
       \/ look.token # "STRING" /\ Leave
    /\ UNCHANGED <<conf, files, loaded, saved>>

-----------------------------------------------------------------------------
(* The configuration.                                                      *)

Entry(k, v) == [key |-> k, value |-> v]

HasSection(c, s) == \E i \in DOMAIN c : c[i].section = s
KeysOf(c, s) == UNION {{c[i].keys[j].key : j \in DOMAIN c[i].keys} : i \in {i \in DOMAIN c : c[i].section = s}}

\* key_entry_add, and a6o_conf_add_value for a key that is new.
a6o_conf_add_value(c, s, k, v) ==
    IF HasSection(c, s)
    THEN [i \in DOMAIN c |-> IF c[i].section = s THEN [c[i] EXCEPT !.keys = Append(@, Entry(k, v))] ELSE c[i]]
    ELSE Append(c, [section |-> s, keys |-> <<Entry(k, v)>>])

\* call_callback: a key that is defined already makes the callback fail, which ends the file.
call_callback ==
    /\ at = "callback"
    /\ IF key \in KeysOf(conf, section)
          THEN Leave /\ UNCHANGED conf
          ELSE /\ conf' = a6o_conf_add_value(conf, section, key, value)
               /\ at' = "definition_list" /\ value' = Void
               /\ UNCHANGED <<look, section, key>>
    /\ UNCHANGED <<files, loaded, saved>>

Loaded == at = "idle" /\ files = <<>>

\* a6o_conf_set_value and its variants: only a key that exists, and with a value of its type.
a6o_conf_set_value(i, j, v) ==
    /\ Loaded /\ saved = NULL
    /\ i \in DOMAIN conf /\ j \in DOMAIN conf[i].keys
    /\ conf[i].keys[j].value.type = v.type
    /\ conf' = [conf EXCEPT ![i].keys[j].value = v]
    /\ loaded' = NULL
    /\ UNCHANGED <<files, pVars, saved>>

\* Mutant: strings are written without quotes.
MutItemBare(v, n) == (IF n = 1 THEN <<>> ELSE <<Lexeme(",", "")>>) \o <<Blank>> \o Bare[v.items[n]]

\* What conf_save_fun writes for the n-th item of a value: an int by "%d", with its sign, a
\* string between quotes.  (No string has a quote in it: the scanner cannot return one.)
SavedItem(v, n) ==
    IF v.type = "int" THEN <<Blank>> \o Bare[v.items[n]]
    ELSE (IF n = 1 THEN <<>> ELSE <<Lexeme(",", "")>>) \o <<Blank, Lexeme("quoted", v.items[n])>>

\* Names of keys and sections are written without quotes, whatever they were read as.
SavedEntry(e) ==
    Bare[e.key] \o <<Blank, Lexeme("=", "")>>
        \o FlattenSeq([n \in DOMAIN e.value.items |-> SavedItem(e.value, n)]) \o <<Newline>>

SavedSection(s) ==
    <<Newline, Lexeme("[", "")>> \o Bare[s.section] \o <<Lexeme("]", ""), Newline, Newline>>
        \o FlattenSeq([j \in DOMAIN s.keys |-> SavedEntry(s.keys[j])])

\* a6o_conf_save_file, and loading the file into a new configuration.
a6o_conf_save_file ==
    /\ Loaded /\ saved = NULL
    /\ saved' = conf /\ conf' = <<>>
    /\ files' = <<[i \in DOMAIN conf |-> SavedSection(conf[i])]>>
    /\ loaded' = NULL
    /\ UNCHANGED pVars

-----------------------------------------------------------------------------
Parse ==
    \/ r_section_list \/ r_section_name \/ r_section \/ r_definition_list \/ r_definition
    \/ r_value \/ r_opt_string_list \/ r_list_string_value \/ call_callback

ConfigurationNext ==
    \/ a6o_conf_load_file \/ Parse \/ a6o_conf_save_file
    \/ \E i \in DOMAIN conf, v \in NewValues : \E j \in DOMAIN conf[i].keys : a6o_conf_set_value(i, j, v)

-----------------------------------------------------------------------------
(* Properties.                                                             *)

Entries(c) ==
    UNION {{<<c[i].section, c[i].keys[j].key, c[i].keys[j].value>> : j \in DOMAIN c[i].keys} : i \in DOMAIN c}

\* A file read line by line: r holds the definitions so far, the section, and whether the
\* lines were good up to here.
ReadLine(r, line) ==
    LET m == Meaning[line]
        new == ~\E e \in r.defs : e[1] = r.section /\ e[2] = m.name
    IN  CASE ~r.good \/ m.kind = "nothing" -> r
          [] r.good /\ m.kind = "section"  -> [r EXCEPT !.section = m.name]
          [] r.good /\ m.kind \in {"bad", "unfinished"} -> [r EXCEPT !.good = FALSE]
          [] r.good /\ m.kind = "definition" ->
                IF new /\ r.section # NULL THEN [r EXCEPT !.defs = @ \cup {<<r.section, m.name, m.value>>}]
                                          ELSE [r EXCEPT !.good = FALSE]

ReadFile(defs, file) ==
    IF file = NULL THEN defs
    ELSE FoldLeft(ReadLine, [defs |-> defs, section |-> NULL, good |-> TRUE], file).defs

\* A value is missing, and the first word of a later line is taken for it: the blank or the
\* comment behind "=" takes the newline with it, and a list goes on behind its separator.
TakesNextLine(file) == \E i \in 1..Len(file) - 1 : Meaning[file[i]].kind = "unfinished"

\* The configuration holds what the files define, each up to its first line that is wrong or
\* defines a key again, and nothing of that line: a later file neither replaces nor removes
\* anything (call_callback, longjmp in confparser.c).
LoadedRight ==
    at = "idle" /\ loaded # NULL =>
        \/ Entries(conf) = FoldLeft(ReadFile, {}, loaded)
        \/ \E i \in DOMAIN loaded : loaded[i] # NULL /\ TakesNextLine(loaded[i])

\* The name, or the number, is a single lexeme of its kind when it is written without quotes.
ReadsBack(kind, t) == Bare[t] = <<Lexeme(kind, t)>>

\* A configuration that was written to a file and read back is the same, sections, order and
\* types included, unless one of four things cannot be written so that the parser takes it
\* back: a list of fewer than two items (one item comes back as a string, an empty list ends
\* the file), a section or a key that was quoted because it is not a word (conf_save_fun
\* writes no quotes), and a negative number, which an unsigned one above INT_MAX becomes.
RoundTrip ==
    Loaded /\ saved # NULL =>
        \/ conf = saved
        \/ \E e \in Entries(saved) :
              \/ e[3].type = "list" /\ Len(e[3].items) < 2
              \/ ~ReadsBack("word", e[1]) \/ ~ReadsBack("word", e[2])
              \/ e[3].type = "int" /\ ~ReadsBack("int", e[3].items[1])
==============================================================================
