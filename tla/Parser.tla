------------------------------- MODULE Parser -------------------------------
(***************************************************************************)
(* How a line a player types becomes a verb to run: moo/core/parse.py.     *)
(* A line is a sequence of words: a quoted text is one word, names are in  *)
(* lower case.  The parser asks a world `w' where an object is, w.loc[o],  *)
(* what it is placed on, under or behind, w.placed[o], and which names     *)
(* commands have given it, w.alias[o].                                     *)
(***************************************************************************)
EXTENDS Integers, Sequences, FiniteSets, FiniteSetsExt, SequencesExt

CONSTANTS
    Object,     \* the objects there are, as strings
    NamesOf,    \* NamesOf[o]: the name it has, or none yet, and its first aliases
    Ancestors,  \* Ancestors[o]: rows [of, depth, weight], o's own among them
    Verbs,      \* the verbs in the order of their ids: [on, names, dspec, ispecs]
    PersonOf,   \* PersonOf["bob's"] = "bob", for the possessives in use
    KeyText     \* KeyText[q]: the symbols of the quoted key expression q

Nil == "nil"              \* None
Ambiguous == "ambiguous"  \* AmbiguousObjectError
Absent == "absent"        \* NoSuchObjectError

Failed(x) == x \in {Ambiguous, Absent}

\* #N
Id(o) == "#" \o o

JoinWords(words) ==
    IF words = <<>> THEN "" ELSE FoldLeft(LAMBDA s, t : s \o " " \o t, Head(words), Tail(words))

-----------------------------------------------------------------------------
\* settings.PREPOSITIONS: synonyms, the canonical one first.

PREPOSITIONS ==
  << <<"with", "using">>, <<"at", "to">>, <<"before", "in front of">>,
     <<"in", "inside", "into", "within">>, <<"on", "onto", "upon", "above", "on top of">>,
     <<"from", "out of", "from inside">>, <<"over">>, <<"through">>,
     <<"under", "underneath", "beneath", "below">>, <<"around", "round">>,
     <<"between", "among">>, <<"behind", "past">>,
     <<"beside", "by", "near", "next to", "along">>, <<"for", "about">>, <<"is">>, <<"as">>,
     <<"off", "off of">>, <<"up">>, <<"down">> >>

PLACEMENT_PREPS == <<"on", "under", "behind", "before", "beside", "over">>

HIDDEN_PLACEMENT_PREPS == {"under", "behind"}

Alternatives == FlattenSeq(PREPOSITIONS)

Synonyms(prep) == ToSet(CHOOSE g \in ToSet(PREPOSITIONS) : g[1] = prep)

PREP_CANONICAL(name) == (CHOOSE g \in ToSet(PREPOSITIONS) : name \in ToSet(g))[1]

-----------------------------------------------------------------------------
\* split_command_fragments: an apostrophe opens a quote, a possessive's too.

InQuote(line, i) ==
    Cardinality({j \in 1..(i - 1) : line[j] \in DOMAIN PersonOf}) % 2 = 1

Alphabetic(word) == word \notin {Id(o) : o \in Object} \cup DOMAIN KeyText

Separates(line, i) ==
    /\ ~ InQuote(line, i)
    /\ \/ line[i] = "then"
       \/ line[i] \in {".", ",", ";"} /\ i < Len(line) /\ Alphabetic(line[i + 1])

RECURSIVE Fragments(_)
Fragments(line) ==
    LET cuts == {i \in DOMAIN line : Separates(line, i)}
        at == IF cuts = {} THEN Len(line) + 1 ELSE Min(cuts)
        rest == IF cuts = {} THEN <<>> ELSE Fragments(SubSeq(line, at + 1, Len(line)))
    IN (IF at = 1 THEN <<>> ELSE <<SubSeq(line, 1, at - 1)>>) \o rest

split_command_fragments(line) == IF Fragments(line) = <<>> THEN <<line>> ELSE Fragments(line)

-----------------------------------------------------------------------------
\* The Lexer: where the prepositions are, and the phrases between them.

Matches(line, i) ==
    LET phrases == {JoinWords(SubSeq(line, i, j)) : j \in i..Min({i + 2, Len(line)})}
    IN {k \in DOMAIN Alternatives : Alternatives[k] \in phrases}

WordsIn(name) == CASE name \in {"in front of", "on top of"} -> 3
                   [] name \in {"out of", "from inside", "next to", "off of"} -> 2
                   [] OTHER -> 1

\* The regular expression tries the alternatives in their order, so that
\* `from' matches before `from inside' and `on' before `on top of' do.
RECURSIVE PrepositionsFrom(_, _)
PrepositionsFrom(line, i) ==
    LET matches == Matches(line, i)
        name == Alternatives[Min(matches)]
    IN IF i > Len(line) THEN <<>>
       ELSE IF matches = {} THEN PrepositionsFrom(line, i + 1)
       ELSE <<[at |-> i, len |-> WordsIn(name), prep |-> PREP_CANONICAL(name)]>>
                \o PrepositionsFrom(line, i + WordsIn(name))

\* PHRASE: my, the, a, an or a possessive, when something follows it.
Phrase(words) ==
    IF Len(words) > 1 /\ words[1] \in {"my", "the", "a", "an"} \cup DOMAIN PersonOf
    THEN [whose |-> words[1], name |-> JoinWords(Tail(words))]
    ELSE [whose |-> "", name |-> JoinWords(words)]

\* The words after the k-th preposition that was found, or before all of them.
WordsAfter(line, found, k) ==
    SubSeq(line, IF k = 0 THEN 2 ELSE found[k].at + found[k].len,
                 IF k = Len(found) THEN Len(line) ELSE found[k + 1].at - 1)

\* The prepositions with a phrase; those of one preposition come together.
Grouped(found, given) ==
    LET first(k) == Min({j \in given : found[j].prep = found[k].prep})
    IN SetToSortSeq(given, LAMBDA j, k : first(j) < first(k) \/ (first(j) = first(k) /\ j < k))

Lexed(line, found) ==
    LET grouped == Grouped(found, {k \in DOMAIN found : WordsAfter(line, found, k) # <<>>})
    IN [words |-> line,
        dobj |-> Phrase(WordsAfter(line, found, 0)),
        iobjs |-> [i \in DOMAIN grouped |->
                      Phrase(WordsAfter(line, found, grouped[i])) @@ [prep |-> found[grouped[i]].prep]]]

\* Lexer.__init__
Lex(line) == Lexed(line, PrepositionsFrom(line, 2))

-----------------------------------------------------------------------------
\* find_object

Contents(w, place) == {o \in Object : w.loc[o] = place}

\* Object.is_named
is_named(w, o, name) == name \in NamesOf[o] \cup w.alias[o]

\* Object.find
Find(w, place, name) == {o \in Contents(w, place) : is_named(w, o, name)}

TheOne(found) == CASE found = {} -> Nil
                   [] Cardinality(found) = 1 -> CHOOSE o \in found : TRUE
                   [] OTHER -> Ambiguous

InSight(w, caller, name, hiddenToo) ==
    {o \in Find(w, w.loc[caller], name) : hiddenToo \/ w.placed[o].prep \notin HIDDEN_PLACEMENT_PREPS}

find_object(w, caller, whose, name, hiddenToo) ==
    LET people == IF whose \in DOMAIN PersonOf THEN Find(w, w.loc[caller], PersonOf[whose]) ELSE {caller}
        held == Find(w, TheOne(people), name)
    IN CASE people = {} -> Absent
         [] Cardinality(people) > 1 -> Ambiguous
         [] OTHER -> TheOne(IF held # {} THEN held ELSE InSight(w, caller, name, hiddenToo))

\* get_pronoun_object
get_pronoun_object(w, caller, name) ==
    CASE name = "me" -> caller
      [] name = "here" -> w.loc[caller]
      [] \E o \in Object : name = Id(o) -> CHOOSE o \in Object : name = Id(o)
      [] is_named(w, w.loc[caller], name) -> w.loc[caller]
      [] OTHER -> Nil

OrElse(x, y) == IF x = Nil THEN y ELSE x

\* The joined name of a phrase whose first word only looked like a specifier.
Joined(it) == it.whose \o " " \o it.name

AgainJoined(w, caller, it, hiddenToo) ==
    IF it.whose = "" THEN Nil ELSE find_object(w, caller, "", Joined(it), hiddenToo)

\* An ambiguous indirect object may be a plain text and is left unresolved;
\* a possessor who is not here is an error.
Iobj(w, caller, it, hiddenToo) ==
    LET found == OrElse(find_object(w, caller, it.whose, it.name, hiddenToo),
                 OrElse(AgainJoined(w, caller, it, hiddenToo),
                        get_pronoun_object(w, caller, IF it.whose = "" THEN it.name ELSE Joined(it))))
    IN IF found = Ambiguous THEN Nil ELSE found

Dobj(w, caller, it, hiddenToo) ==
    IF it.name = "" THEN Nil
    ELSE OrElse(find_object(w, caller, it.whose, it.name, hiddenToo),
         OrElse(AgainJoined(w, caller, it, hiddenToo), get_pronoun_object(w, caller, it.name)))

\* find_object looks at what is hidden when the command says `from'.
SaysFrom(lex) == \E i \in DOMAIN lex.iobjs : lex.iobjs[i].prep = "from"

\* Parser.__init__
Parse(w, caller, lex) ==
    LET hiddenToo == SaysFrom(lex)
        first == find_object(w, caller, lex.dobj.whose, lex.dobj.name, hiddenToo)
        joined == /\ lex.dobj.name # "" /\ lex.dobj.whose # "" /\ first = Nil
                  /\ AgainJoined(w, caller, lex.dobj, hiddenToo) # Nil
    IN [caller |-> caller, words |-> lex.words,
        dobj |-> Dobj(w, caller, lex.dobj, hiddenToo),
        dobjStr |-> IF joined THEN Joined(lex.dobj) ELSE lex.dobj.name,
        iobjs |-> [i \in DOMAIN lex.iobjs |->
                      lex.iobjs[i] @@ [obj |-> Iobj(w, caller, lex.iobjs[i], hiddenToo)]]]

\* The constructor raises, and the command does nothing.
Raises(parse) == Failed(parse.dobj) \/ \E i \in DOMAIN parse.iobjs : Failed(parse.iobjs[i].obj)

-----------------------------------------------------------------------------
\* What the verbs ask the parser.

Records(parse, prep) == SelectSeq(parse.iobjs, LAMBDA it : it.prep = prep)

has_dobj_str(parse) == parse.dobjStr # ""

has_pobj_str(parse, prep) == Records(parse, prep) # <<>>

get_pobj_str(parse, prep) == Records(parse, prep)[1].name

get_dobj(parse) == IF parse.dobj = Nil THEN Absent ELSE parse.dobj

get_pobj(parse, prep) ==
    LET found == SelectSeq(Records(parse, prep), LAMBDA it : it.obj # Nil)
    IN CASE found = <<>> -> Absent
         [] Len(found) > 1 -> Ambiguous
         [] OTHER -> found[1].obj

-----------------------------------------------------------------------------
\* Which verb the command runs, and on which object.

Present(parse) == {parse.iobjs[i].prep : i \in DOMAIN parse.iobjs}

Governs(ispec, prep) == ispec.prep \in {"any", prep}

\* _passes_parse_filters: an ispec speaks of the prepositions that are there,
\* and of `this' only.
_passes_parse_filters(verb, viewer, parse) ==
    /\ verb.dspec = "this" => parse.dobj = viewer
    /\ verb.dspec = "none" => ~ has_dobj_str(parse)
    /\ verb.dspec = "any" => has_dobj_str(parse)
    /\ \A ispec \in verb.ispecs, prep \in Present(parse) :
          Governs(ispec, prep) /\ ispec.spec = "this"
              => \E i \in DOMAIN parse.iobjs : parse.iobjs[i].prep = prep /\ parse.iobjs[i].obj = viewer

Declared(verb) == UNION {Synonyms(ispec.prep) : ispec \in {s \in verb.ispecs : s.prep # "any"}}

_ispec_specificity(verb, preps) ==
    <<Cardinality(Declared(verb) \cap preps), Cardinality(Declared(verb) \ preps)>>

Precedes(a, b) == \E i \in DOMAIN a : a[i] < b[i] /\ \A j \in 1..(i - 1) : a[j] = b[j]

\* How a viewer ranks verb v, reached over an ancestor's row.
SortKey(v, row, parse) ==
    LET fit == _ispec_specificity(Verbs[v], Present(parse))
    IN <<- fit[1], fit[2], row.depth, - row.weight, v>>

Candidates(viewer, called, parse) ==
    {SortKey(c[1], c[2], parse) : c \in
        {c \in called \X Ancestors[viewer] :
            Verbs[c[1]].on = c[2].of /\ _passes_parse_filters(Verbs[c[1]], viewer, parse)}}

BestVerb(keys) == (CHOOSE k \in keys : \A j \in keys : j = k \/ Precedes(k, j))[5]

\* Mutant of get_search_order: the indirect objects are left out.
SearchOrderNoIobjs(w, parse) ==
    <<{parse.caller}, Contents(w, parse.caller), {w.loc[parse.caller]}, {parse.dobj}>>

\* get_search_order: the order inside an inventory is the database's.
get_search_order(w, parse) ==
    <<{parse.caller}, Contents(w, parse.caller), {w.loc[parse.caller]}, {parse.dobj}>>
        \o [i \in DOMAIN parse.iobjs |-> {parse.iobjs[i].obj}]

\* get_verb, _batch_get_verb: the last object with a verb that passes wins; an
\* object that comes twice counts where it comes last.  Empty: NoSuchVerb.
get_verb(w, parse) ==
    LET order == get_search_order(w, parse)
        called == {v \in DOMAIN Verbs : parse.words[1] \in Verbs[v].names}
        keys == [o \in UNION ToSet(order) \ {Nil} |-> Candidates(o, called, parse)]
        rank(o) == Max({i \in DOMAIN order : o \in order[i]})
        viewers == {o \in DOMAIN keys : keys[o] # {}}
    IN {[this |-> o, verb |-> BestVerb(keys[o])] :
           o \in {o \in viewers : \A x \in viewers : rank(x) <= rank(o)}}

=============================================================================
