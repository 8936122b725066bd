----------------------------- MODULE PbRegister -----------------------------
(***************************************************************************)
(* Registration of message types with pbc (register.c, proto.c and the     *)
(* resolution of types in bootstrap.c): a set of file descriptors brings   *)
(* messages, enumerations and extensions of messages.  Files are taken     *)
(* when the files they depend on have been; a field refers to the type of  *)
(* its value by name until its file is complete.                           *)
(*                                                                         *)
(* A name is the sequence of its parts.  Message types keep their fields   *)
(* by name and, for reading, by number: a table made anew when fields are  *)
(* added.  The default of a field is parsed already.                       *)
(***************************************************************************)
EXTENDS Integers, Sequences, SequencesExt, FiniteSetsExt

CONSTANTS File,          \* the file of each name
          Sets,          \* what pbc_register may be given: names of files
          MAX_CALLS,     \* bound on the calls
          NULL

RegisterAssumption ==
    MAX_CALLS \in Nat /\ \A list \in Sets : ToSet(list) \subseteq DOMAIN File

VARIABLES files, enums, msgs,    \* struct pbc_env
          calls,                 \* the sets given so far
          results                \* what each call returned

env == <<files, enums, msgs>>
vars == <<env, calls, results>>

Env(f, e, m) == [files |-> f, enums |-> e, msgs |-> m, queue |-> << >>]
With(map, name, value) == (name :> value) @@ map
Has(map, name) == name \in DOMAIN map

_concat_name(prefix, name) == Append(prefix, name)

\* The first enumeration of a name stays.
_pbcP_push_enum(p, name, table) ==
    IF Has(p.enums, name) THEN p
    ELSE [p EXCEPT !.enums = With(@, name, [value |-> table, default |-> table[1].name])]

_register_enum(p, enum_type, prefix) ==
    _pbcP_push_enum(p, _concat_name(prefix, enum_type.name), enum_type.value)

_register_field(field, name) ==
    [id |-> field.number, name |-> name, type |-> field.type,
     label |-> IF field.packed THEN "packed" ELSE field.label,
     type_name |-> field.type_name, default |-> field.default]

NewMessage == [name |-> << >>, id |-> NULL]

\* The queue keeps the fields whose types are to be found.
_pbcP_push_message(p, name, f) ==
    LET m == IF Has(p.msgs, name) THEN p.msgs[name] ELSE NewMessage
    IN [p EXCEPT !.msgs = With(@, name, [m EXCEPT !.name = With(@, f.name, f)]),
                 !.queue = IF f.type \in {"message", "enum"}
                           THEN Append(@, <<name, f.name>>) ELSE @]

\* The numbers of the fields there are: the table is made anew.
_pbcP_init_message(p, name) ==
    IF ~Has(p.msgs, name) THEN [p EXCEPT !.msgs = With(@, name, NewMessage)]
    ELSE [p EXCEPT !.msgs[name].id =
             {<<p.msgs[name].name[f].id, f>> : f \in DOMAIN p.msgs[name].name}]

\* Mutated form of _register_extension: only the last message gets its numbers.
_register_extension_last(p, prefix, extension) ==
    LET Push(q, x) == _pbcP_push_message(q, x.extendee,
                          _register_field(x, _concat_name(prefix, x.name)))
    IN IF extension = << >> THEN p
       ELSE _pbcP_init_message(FoldLeft(Push, p, extension), Last(extension).extendee)

\* Extensions of one message after another: its numbers are renewed when
\* those of the next message begin.
_register_extension(p, prefix, extension) ==
    LET Push(r, x) ==
            [p |-> LET q == _pbcP_push_message(r.p, x.extendee,
                                _register_field(x, _concat_name(prefix, x.name)))
                   IN IF r.last \notin {NULL, x.extendee}
                      THEN _pbcP_init_message(q, r.last) ELSE q,
             last |-> x.extendee]
        done == FoldLeft(Push, [p |-> p, last |-> NULL], extension)
    IN IF extension = << >> THEN p ELSE _pbcP_init_message(done.p, done.last)

RECURSIVE _register_message(_, _, _)
_register_message(p, message_type, prefix) ==
    LET name == _concat_name(prefix, message_type.name)
        fields == FoldLeft(LAMBDA q, f :
                      _pbcP_push_message(q, name, _register_field(f, <<f.name>>)),
                      p, message_type.field)
        extended == _register_extension(_pbcP_init_message(fields, name), name,
                                        message_type.extension)
        enum == FoldLeft(LAMBDA q, e : _register_enum(q, e, name), extended,
                         message_type.enum_type)
    IN FoldLeft(LAMBDA q, t : _register_message(q, t, name), enum,
                message_type.nested_type)

\* The type of a field by its name; an enumeration gives the default too.
set_field_one(p, f) ==
    CASE f.type = "message" ->
            [f EXCEPT !.type_name = IF Has(p.msgs, @) THEN @ ELSE NULL]
      [] f.type = "enum" ->
            [f EXCEPT !.default = IF @ = NULL THEN p.enums[f.type_name].default ELSE @]

_pbcB_register_fields(p) ==
    FoldLeft(LAMBDA q, at :
        [q EXCEPT !.msgs[at[1]].name[at[2]] = set_field_one(q, @)], p, p.queue)

_register(p, file) ==
    LET enum == FoldLeft(LAMBDA q, e : _register_enum(q, e, file.package),
                         [p EXCEPT !.queue = << >>], file.enum_type)
        message == FoldLeft(LAMBDA q, t : _register_message(q, t, file.package),
                            enum, file.message_type)
    IN _pbcB_register_fields(_register_extension(message, file.package, file.extension))

_check_file_name(p, name) ==
    CASE name \in p.files -> "exist"
      [] name \notin p.files /\ ~(ToSet(File[name].dependency) \subseteq p.files) ->
            "dependency"
      [] OTHER -> "ok"

\* One pass over the files; r counts those that wait for others.
_register_no_dependency(p, list) ==
    FoldLeft(LAMBDA a, name :
        CASE _check_file_name(a.p, name) = "exist" -> a
          [] _check_file_name(a.p, name) = "dependency" -> [a EXCEPT !.r = @ + 1]
          [] _check_file_name(a.p, name) = "ok" ->
                [a EXCEPT !.p = _register([@ EXCEPT !.files = @ \union {name}], File[name])],
        [p |-> p, r |-> 0], list)

RECURSIVE Passes(_, _, _)
AfterPass(pass, list, r) ==
    CASE pass.r = r -> [p |-> pass.p, error |-> TRUE]
      [] pass.r # r /\ pass.r = 0 -> [p |-> pass.p, error |-> FALSE]
      [] OTHER -> Passes(pass.p, list, pass.r)
Passes(p, list, r) ==
    AfterPass(_register_no_dependency(p, list), list, r)

Init == /\ files = {} /\ enums = << >> /\ msgs = << >>
        /\ calls = << >> /\ results = << >>

Registered(r) ==
    /\ files' = r.p.files /\ enums' = r.p.enums /\ msgs' = r.p.msgs
    /\ results' = Append(results, r.error)
pbc_register(list) ==
    /\ Len(calls) < MAX_CALLS
    /\ Registered(Passes(Env(files, enums, msgs), list, Len(list)))
    /\ calls' = Append(calls, list)

Next == \E list \in Sets : pbc_register(list)

Spec == Init /\ [][Next]_vars

(***************************************************************************)
(* What the descriptors say.                                               *)
(***************************************************************************)
RECURSIVE TypesOf(_, _)
TypesOf(message_types, prefix) ==
    UNION {LET t == message_types[i]
               name == Append(prefix, t.name)
           IN {[name |-> name, type |-> t]} \union TypesOf(t.nested_type, name) :
              i \in DOMAIN message_types}

Loaded == {File[name] : name \in files}
Types(file) == TypesOf(file.message_type, file.package)
AllTypes == UNION {Types(file) : file \in Loaded}

\* What declares extensions and enumerations: files and their messages.
Scopes == {[prefix |-> file.package, of |-> file] : file \in Loaded}
          \union {[prefix |-> t.name, of |-> t.type] : t \in AllTypes}
First(type_name) ==
    LET s == CHOOSE s \in Scopes : \E i \in DOMAIN s.of.enum_type :
                  Append(s.prefix, s.of.enum_type[i].name) = type_name
        i == CHOOSE i \in DOMAIN s.of.enum_type :
                  Append(s.prefix, s.of.enum_type[i].name) = type_name
    IN s.of.enum_type[i].value[1].name
Known(f, name) ==
    [_register_field(f, name) EXCEPT
        !.default = IF f.type = "enum" /\ f.default = NULL THEN First(f.type_name) ELSE @]
FieldsOf(t) ==
    {Known(t.type.field[i], <<t.type.field[i].name>>) : i \in DOMAIN t.type.field}
    \union UNION {{Known(s.of.extension[i], Append(s.prefix, s.of.extension[i].name)) :
                     i \in {j \in DOMAIN s.of.extension :
                              s.of.extension[j].extendee = t.name}} : s \in Scopes}

\* The files of a call that can be taken after those in known.
RECURSIVE Taken(_, _)
Taken(known, list) ==
    LET more == {i \in DOMAIN list : /\ list[i] \notin known
                                     /\ ToSet(File[list[i]].dependency) \subseteq known}
    IN IF more = {} THEN known
       ELSE Taken(known \union {list[i] : i \in more}, list)
After(k) == FoldLeft(Taken, {}, SubSeq(calls, 1, k))

\* After any calls, in whatever order they bring the files: exactly the
\* files whose dependencies are met are known, a call fails if one of its
\* files is not or if it has none, and every message type has its own fields and those that
\* the extensions of all these files add to it, by name and by number, each
\* with the type it refers to and its default, and nothing else.
RegisterExact ==
    /\ files = After(Len(calls))
    /\ \A k \in DOMAIN calls :
        results[k] <=> \/ calls[k] = << >>
                       \/ \E i \in DOMAIN calls[k] : calls[k][i] \notin After(k)
    /\ DOMAIN msgs = {t.name : t \in AllTypes}
    /\ \A t \in AllTypes :
        LET m == msgs[t.name]
        IN  /\ {m.name[f] : f \in DOMAIN m.name} = FieldsOf(t)
            /\ IF FieldsOf(t) = {} THEN m.id = NULL
               ELSE m.id = {<<f.id, f.name>> : f \in FieldsOf(t)}
            /\ \A f \in FieldsOf(t) :
                f.type = "message" => m.name[f.name].type_name \in DOMAIN msgs
=============================================================================
