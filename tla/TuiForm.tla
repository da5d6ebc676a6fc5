-------------------------------- MODULE TuiForm --------------------------------
(***************************************************************************)
(* The forms of the TUI (ctl/tui/add.rs) that add a port, an empty bridge, *)
(* a TNC or a name for an adapter: which fields apply, where the cursor    *)
(* goes, the id that is suggested, and the definition that is sent.        *)
(*                                                                         *)
(* A choice is the number of its option.  The text of a field is empty, as *)
(* the form gave it, or typed.  An id is a base and a number, 1 for none.  *)
(***************************************************************************)
EXTENDS Integers, Sequences, FiniteSets

CONSTANTS
  Kinds,      \* the forms that are opened
  Options,    \* how many options each choice has
  Bases,      \* the base of an id, for each model or adapter
  Taken       \* the ids in use, for each kind of form

VARIABLES
  form,   \* App::form, at most one
  sent    \* the definition that the last key sent, at most one

vars == <<form, sent>>

Types == <<"ble-server", "tcp-server", "tcp-client", "spp-client", "ble-client", "serial">>
Links == <<"spp", "ble", "serial">>
TncTypes == {"tcp-client", "spp-client", "ble-client", "serial"}

\* The fields of each form, and the text that they start with.
Fields == [port |-> <<"type", "id", "listen", "allow", "address", "tnc_spp", "tnc_ble", "tnc_serial", "adapter", "connect">>,
           bridge |-> <<"name", "id">>,
           tnc |-> <<"model", "id", "name", "link", "address", "adapter", "path">>,
           adapter |-> <<"mac", "id">>]
Given == [port |-> {"listen", "address"}, bridge |-> {}, tnc |-> {"path"}, adapter |-> {}]
IsChoice(k) == k \in DOMAIN Options

type(f) == Types[f.choice.type]
link(f) == Links[f.choice.link]

\* Whether a field applies, given the choices so far.
applies(f, k) ==
  CASE f.what = "port" ->
         LET t == type(f) IN
         CASE k \in {"listen", "allow"} -> t = "tcp-server"
           [] k = "address" -> t = "tcp-client"
           [] k = "tnc_spp" -> t = "spp-client"
           [] k = "tnc_ble" -> t = "ble-client"
           [] k = "tnc_serial" -> t = "serial"
           [] k = "adapter" -> t = "ble-server"
           [] k = "connect" -> t \in TncTypes
           [] OTHER -> TRUE
    [] f.what = "tnc" ->
         CASE k \in {"address", "adapter"} -> link(f) \in {"spp", "ble"}
           [] k = "path" -> link(f) = "serial"
           [] OTHER -> TRUE
    [] OTHER -> TRUE

visible(f) == SelectSeq(Fields[f.what], LAMBDA k : applies(f, k))

\* The base, or with the first number that is free.
numbered(base, taken) ==
  [base |-> base, n |-> CHOOSE n \in 1..Cardinality(taken) + 1 :
     /\ [base |-> base, n |-> n] \notin taken
     /\ \A m \in 1..n - 1 : [base |-> base, n |-> m] \in taken]

\* What the id's suggestion starts from.
base(f) ==
  CASE f.what = "port" -> (CASE type(f) = "ble-server" -> "phones" [] type(f) = "tcp-server" -> "lan"
                             [] type(f) = "tcp-client" -> "tnc" [] OTHER -> "radio")
    [] f.what = "tnc" -> Bases.tnc[f.choice.model]
    [] f.what = "adapter" -> Bases.adapter[f.choice.mac]
    [] OTHER -> ""

\* A fresh suggestion, unless the id was typed in.
resuggest(f) ==
  IF f.what = "bridge" \/ f.touched THEN f ELSE [f EXCEPT !.id = numbered(base(f), Taken[f.what])]

\* Whether a field has a value to send.
NoId == [base |-> "", n |-> 1]
Has(f, k) ==
  CASE k = "id" -> f.id # NoId
    [] k = "adapter" -> f.choice.adapter > 1
    [] IsChoice(k) -> Options[k] > 0
    [] OTHER -> f.text[k] # ""

Needs(f) ==
  CASE f.what = "port" ->
         {"id"} \cup (CASE type(f) = "tcp-server" -> {"listen"} [] type(f) = "tcp-client" -> {"address"}
                        [] type(f) = "spp-client" -> {"tnc_spp"} [] type(f) = "ble-client" -> {"tnc_ble"}
                        [] type(f) = "serial" -> {"tnc_serial"} [] OTHER -> {})
    [] f.what = "bridge" -> {"name"}
    [] f.what = "tnc" -> {"id"} \cup (IF link(f) = "serial" THEN {"path"} ELSE {"address"})
    [] f.what = "adapter" -> {"id", "mac"}

\* Variant with a defect: when to connect is sent for any port.
Optional_connect(f) ==
  CASE f.what = "port" -> (IF type(f) = "tcp-server" THEN {"allow"} ELSE IF type(f) = "ble-server" THEN {"adapter"} ELSE {})
                          \cup (IF f.choice.connect = 2 THEN {"connect"} ELSE {})
    [] f.what = "bridge" -> {"id"}
    [] f.what = "tnc" -> IF link(f) = "serial" THEN {} ELSE {"adapter"}
    [] OTHER -> {}

Optional(f) ==
  CASE f.what = "port" -> (IF type(f) = "tcp-server" THEN {"allow"} ELSE IF type(f) = "ble-server" THEN {"adapter"} ELSE {})
                          \cup (IF applies(f, "connect") /\ f.choice.connect = 2 THEN {"connect"} ELSE {})
    [] f.what = "bridge" -> {"id"}
    [] f.what = "tnc" -> IF link(f) = "serial" THEN {} ELSE {"adapter"}
    [] OTHER -> {}

\* The name of a field in the definition: the TNC's three lists are one key, and a TNC's
\* address, adapter or path is in the section of its link.
Key(f, k) == CASE k \in {"tnc_spp", "tnc_ble", "tnc_serial"} -> "tnc"
               [] f.what = "tnc" /\ k \in {"address", "path"} -> link(f)
               [] OTHER -> k

definition(f) ==
  [what |-> f.what, type |-> IF f.what = "port" THEN type(f) ELSE "",
   keys |-> {Key(f, k) : k \in Needs(f) \cup {k \in Optional(f) : Has(f, k)}}
              \cup (CASE f.what = "tnc" -> {"name", "model"} [] f.what = "port" -> {"type"} [] OTHER -> {})]

------------------------------------------------------------------------------
open(what) ==
  /\ form = {} /\ sent' = {}
  /\ LET ks == {Fields[what][i] : i \in 1..Len(Fields[what])}
     IN  form' = {resuggest([what |-> what, focus |-> 1, touched |-> FALSE, error |-> FALSE, id |-> NoId,
                             choice |-> [k \in {x \in ks : IsChoice(x)} |-> 1],
                             text |-> [k \in {x \in ks : ~IsChoice(x) /\ x # "id"} |-> IF k \in Given[what] THEN "given" ELSE ""]])}

At(f) == Fields[f.what][f.focus]
Index(f, k) == CHOOSE i \in 1..Len(Fields[f.what]) : Fields[f.what][i] = k

\* Up and Down go through the fields that are visible.
Move(f, d) ==
  LET vis == visible(f)
      at == IF \E i \in 1..Len(vis) : vis[i] = At(f) THEN CHOOSE i \in 1..Len(vis) : vis[i] = At(f) ELSE 1
      to == IF d = 1 THEN (IF at < Len(vis) THEN at + 1 ELSE at) ELSE (IF at > 1 THEN at - 1 ELSE at)
  IN  [f EXCEPT !.focus = Index(f, vis[to])]

\* Left and Right change a choice, and with it what is suggested.
Change(f, d) ==
  IF IsChoice(At(f)) /\ Options[At(f)] > 0
  THEN LET n == Options[At(f)] IN resuggest([f EXCEPT !.choice[At(f)] = ((@ - 1 + d + n) % n) + 1])
  ELSE f

\* A character, or one less: the field counts as typed in.
Type(f, t) ==
  CASE IsChoice(At(f)) -> f
    [] At(f) = "id" -> [f EXCEPT !.id = [base |-> t, n |-> 1], !.touched = TRUE]
    [] OTHER -> [f EXCEPT !.text[At(f)] = t]

form_key ==
  /\ sent' = {}
  /\ \E f \in form :
       \/ \E d \in {1, -1} : form' = {Move(f, d)} \/ form' = {Change(f, d)}
       \/ \E t \in {"", "typed"} : form' = {Type(f, t)}
       \/ form' = {}

\* Enter: the definition goes out, or the form says what is missing.
submit ==
  \E f \in form :
    IF \A k \in Needs(f) : Has(f, k)
    THEN form' = {[f EXCEPT !.error = FALSE]} /\ sent' = {definition(f)}
    ELSE form' = {[f EXCEPT !.error = TRUE]} /\ sent' = {}

Init == form = {} /\ sent = {}
Next == (\E k \in Kinds : open(k)) \/ form_key \/ submit
Spec == Init /\ [][Next]_vars

------------------------------------------------------------------------------

\* What each definition takes and needs (config/model.rs, which denies unknown fields).
Takes(d) ==
  CASE d.what = "port" -> {"id", "type"} \cup
         (CASE d.type = "tcp-server" -> {"listen", "allow"} [] d.type = "tcp-client" -> {"address", "connect"}
            [] d.type = "ble-server" -> {"adapter"} [] OTHER -> {"tnc", "connect"})
    [] d.what = "bridge" -> {"id", "name"}
    [] d.what = "tnc" -> {"id", "name", "model", "spp", "ble", "serial", "adapter"}
    [] d.what = "adapter" -> {"id", "mac"}
Requires(d) ==
  CASE d.what = "port" -> {"type"} \cup
         (CASE d.type = "tcp-server" -> {"listen"} [] d.type = "tcp-client" -> {"address"}
            [] d.type = "ble-server" -> {} [] OTHER -> {"tnc"})
    [] d.what = "bridge" -> {"name"}
    [] d.what = "tnc" -> {"id", "name", "model"}
    [] d.what = "adapter" -> {"id", "mac"}

\* A definition has only keys that the config knows for its kind and type, all those that it
\* needs, and a TNC has one way to be reached, whatever is left in fields that don't apply.
DefinitionFits ==
  \A d \in sent :
    /\ Requires(d) \subseteq d.keys /\ d.keys \subseteq Takes(d)
    /\ d.what = "tnc" => Cardinality(d.keys \cap {"spp", "ble", "serial"}) = 1
    /\ "adapter" \in d.keys /\ d.what = "tnc" => "serial" \notin d.keys
====
