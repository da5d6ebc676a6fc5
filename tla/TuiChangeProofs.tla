--------------------------- MODULE TuiChangeProofs ---------------------------
(***************************************************************************)
(* Proof that the TUI forces a change only after the daemon has refused    *)
(* that change, for any rows, keys, apps and lost connections.             *)
(*                                                                         *)
(* A question is asked of the answer to a request, and an answer is        *)
(* matched with its request by id.  The invariant is therefore about the   *)
(* ids: none is used twice, so that what waits for an answer is what the   *)
(* daemon was sent under that id, and an answer that refuses says so of    *)
(* the command that waits for it.                                          *)
(***************************************************************************)
EXTENDS TuiChange, TLAPS

Whats == Consented \cup {"port", "kick", "unpair"}
RowIds == {r.id : r \in Rows} \cup Nat
Cmds == [what : Whats, row : RowIds]
Reqs == [cmd : Cmds, nd : BOOLEAN, then : {"consent", "done"}, switch : BOOLEAN, form : Nat]
Msgs == [r : Reqs, id : Nat]
Says == [id : Nat, res : {"disrupt", "conflict", "error", "ok"}]
Counters == DOMAIN [keys |-> 0, forms |-> 0, arrivals |-> 0, losses |-> 0, ids |-> 0, bound |-> 0]

Typed ==
  /\ DOMAIN used = Counters /\ used.ids \in Nat /\ used.forms \in Nat
  /\ up \in Seq(Msgs) /\ down \in Seq(Says) /\ pending \subseteq Msgs
  /\ \A d \in dialog : d.req \subseteq Reqs
  /\ \A f \in form : f = [n |-> f.n, wrong |-> f.wrong] /\ f.n \in Nat

\* A request that may go to the daemon: if it forces a change, that was refused before.
Ok(q) == q.cmd.what \in Consented /\ ~q.nd => q.cmd \in refused

\* Ids are given out once.
IdsInv ==
  /\ \A i \in 1..Len(up) : up[i].id <= used.ids
  /\ \A i \in 1..Len(down) : down[i].id <= used.ids
  /\ \A w \in pending : w.id <= used.ids
  /\ \A i \in 1..Len(up), w \in pending : w.id = up[i].id => w.r = up[i].r

\* What is sent, and what a yes would send, may be sent; an answer that refuses was one to
\* the command that waits for it.
AskedInv ==
  /\ \A i \in 1..Len(up) : Ok(up[i].r)
  /\ \A d \in dialog : \A q \in d.req : Ok(q)
  /\ \A i \in 1..Len(down), w \in pending : w.id = down[i].id /\ down[i].res = "disrupt" => w.r.cmd \in refused

Inv == Typed /\ IdsInv /\ AskedInv

------------------------------------------------------------------------------
\* Requests.

LEMMA ReqParts ==
  ASSUME NEW c \in Cmds, NEW nd \in BOOLEAN, NEW then \in {"consent", "done"}, NEW switch \in BOOLEAN, NEW f \in Nat
  PROVE  /\ Req(c, nd, then, switch, f) \in Reqs
         /\ Req(c, nd, then, switch, f).cmd = c /\ Req(c, nd, then, switch, f).nd = nd
BY DEF Req, Reqs

LEMMA CmdParts ==
  ASSUME NEW what \in Whats, NEW r \in Rows
  PROVE  Cmd(what, r) \in Cmds /\ Cmd(what, r).what = what
BY DEF Cmd, Cmds, RowIds

\* A change asks the daemon not to disrupt.
LEMMA ConsentOk ==
  ASSUME NEW what \in Whats, NEW r \in Rows
  PROVE  /\ consent(what, r) \in Reqs /\ Ok(consent(what, r))
         /\ [consent(what, r) EXCEPT !.switch = TRUE] \in Reqs
         /\ Ok([consent(what, r) EXCEPT !.switch = TRUE])
<1>1. PICK q : q = consent(what, r) OBVIOUS
<1>2. q \in Reqs /\ q.nd = TRUE BY <1>1, ReqParts, CmdParts DEF consent
<1>3. PICK p : p = [q EXCEPT !.switch = TRUE] OBVIOUS
<1>4. p \in Reqs /\ p.nd = TRUE BY <1>2, <1>3 DEF Reqs
<1>5. Ok(q) /\ Ok(p) BY <1>2, <1>4 DEF Ok
<1>6. QED BY <1>1, <1>2, <1>3, <1>4, <1>5

\* What isn't a change needs no consent.
LEMMA DoneOk ==
  ASSUME NEW what \in {"port", "kick", "unpair"}, NEW r \in Rows
  PROVE  done(what, r) \in Reqs /\ Ok(done(what, r))
<1>1. what \in Whats /\ what \notin Consented BY DEF Whats, Consented
<1>2. Cmd(what, r) \in Cmds /\ Cmd(what, r).what = what BY <1>1, CmdParts
<1>3. done(what, r) \in Reqs /\ done(what, r).cmd = Cmd(what, r) BY <1>2, ReqParts DEF done
<1>4. QED BY <1>1, <1>2, <1>3 DEF Ok

\* An outcome that sends has what to send, and all that it has may be sent.
Fit(o) == o.req \subseteq Reqs /\ (\A q \in o.req : Ok(q)) /\ (o.does = "send" => o.req # {})

LEMMA OutcomesFit ==
  /\ Fit(Say) /\ Fit(Notice)
  /\ \A q \in Reqs : Ok(q) => Fit(Asks(q)) /\ Fit(Sends(q))
BY DEF Fit, Say, Notice, Asks, Sends

\* Whatever the key and the row.
LEMMA OnKeyFits ==
  ASSUME NEW k, NEW r \in Rows
  PROVE  Fit(OnKey(k, r))
<1>. \A w \in {"enable", "disable", "switch", "delete", "reload"} : w \in Whats BY DEF Whats, Consented
<1>0. /\ \A w \in {"enable", "disable", "switch", "delete", "reload"} :
           /\ Fit(Sends(consent(w, r))) /\ Fit(Asks(consent(w, r)))
           /\ Fit(Sends([consent(w, r) EXCEPT !.switch = TRUE]))
      /\ \A w \in {"port", "kick", "unpair"} : Fit(Sends(done(w, r))) /\ Fit(Asks(done(w, r)))
      /\ Fit(Say) /\ Fit(Notice)
  BY ConsentOk, DoneOk, OutcomesFit
<1>1. Fit(OnBridge(k, r)) BY <1>0 DEF OnBridge
<1>2. Fit(OnPort(k, r)) BY <1>0 DEF OnPort
<1>3. Fit(OnSession(k, r)) BY <1>0 DEF OnSession
<1>4. Fit(remove_tnc_row(r)) BY <1>0 DEF remove_tnc_row
<1>5. Fit(unpair_tnc(r)) BY <1>0 DEF unpair_tnc
<1>6. QED BY <1>0, <1>1, <1>2, <1>3, <1>4, <1>5 DEF OnKey

------------------------------------------------------------------------------
\* The dialog and the form after a step.

DialogFine == \A d \in dialog' : d.req \subseteq Reqs /\ \A q \in d.req : Ok(q)
FormFine == \A f \in form' : f = [n |-> f.n, wrong |-> f.wrong] /\ f.n \in Nat

LEMMA SpentIds ==
  ASSUME Typed, Spent("ids")
  PROVE  used'.ids = used.ids + 1 /\ used'.forms = used.forms /\ DOMAIN used' = Counters
BY DEF Typed, Spent, Counters

LEMMA SpentOther ==
  ASSUME Typed, NEW what \in {"keys", "forms", "arrivals", "losses"}, Spent(what)
  PROVE  used'.ids = used.ids /\ used'.forms \in Nat /\ DOMAIN used' = Counters
BY DEF Typed, Spent, Counters

\* A request that may be sent is sent, under a new id.
LEMMA SendKept ==
  ASSUME Inv, NEW q \in Reqs, Ok(q), Spent("ids"), Send(q), UNCHANGED <<down, refused>>, DialogFine, FormFine
  PROVE  Inv'
<1>. DEFINE n == used'.ids
            m == [r |-> q, id |-> n]
<1>1. n = used.ids + 1 /\ n \in Nat /\ used'.forms \in Nat /\ DOMAIN used' = Counters
  <2>1. Typed BY DEF Inv
  <2>2. used.ids \in Nat /\ used.forms \in Nat BY <2>1 DEF Typed
  <2>3. QED BY <2>1, <2>2, SpentIds
<1>2. m \in Msgs /\ m.r = q /\ m.id = n BY <1>1 DEF Msgs
<1>3. up' = Append(up, m) /\ pending' = pending \cup {m} BY DEF Send
<1>. HIDE DEF m
<1>4. /\ Len(up') = Len(up) + 1 /\ up' \in Seq(Msgs) /\ up'[Len(up) + 1] = m
      /\ \A i \in 1..Len(up) : up'[i] = up[i]
  BY <1>2, <1>3 DEF Inv, Typed
<1>5. Len(up) \in Nat /\ \A i \in 1..Len(up') : i \in 1..Len(up) \/ i = Len(up) + 1
  BY <1>4 DEF Inv, Typed
<1>6. \A i \in 1..Len(up') : (i \in 1..Len(up) /\ up'[i] = up[i]) \/ up'[i] = m BY <1>4, <1>5
<1>7. Typed' BY <1>1, <1>2, <1>3, <1>4 DEF Inv, Typed, DialogFine, FormFine
<1>8. /\ \A i \in 1..Len(up) : up[i].id \in Nat /\ up[i].id < n
      /\ \A i \in 1..Len(down) : down[i].id \in Nat /\ down[i].id < n
      /\ \A w \in pending : w.id \in Nat /\ w.id < n
  <2>1. used.ids \in Nat BY DEF Inv, Typed
  <2>2. \A i \in 1..Len(up) : up[i].id \in Nat
    <3>1. \A i \in 1..Len(up) : up[i] \in Msgs BY DEF Inv, Typed
    <3>2. QED BY <3>1 DEF Msgs
  <2>3. \A i \in 1..Len(down) : down[i].id \in Nat
    <3>1. \A i \in 1..Len(down) : down[i] \in Says BY DEF Inv, Typed
    <3>2. QED BY <3>1 DEF Says
  <2>4. \A w \in pending : w.id \in Nat BY DEF Inv, Typed, Msgs
  <2>5. QED BY <1>1, <2>1, <2>2, <2>3, <2>4 DEF Inv, IdsInv
<1>9. IdsInv'
  <2>1. \A i \in 1..Len(up') : up'[i].id <= n BY <1>1, <1>2, <1>6, <1>8
  <2>2. \A i \in 1..Len(down') : down'[i].id <= n BY <1>1, <1>8
  <2>3. \A w \in pending' : w.id <= n BY <1>1, <1>2, <1>3, <1>8
  <2>4. \A i \in 1..Len(up'), w \in pending' : w.id = up'[i].id => w.r = up'[i].r
    <3>. SUFFICES ASSUME NEW i \in 1..Len(up'), NEW w \in pending', w.id = up'[i].id PROVE w.r = up'[i].r
      OBVIOUS
    <3>1. CASE w = m /\ up'[i] = m BY <3>1
    <3>2. CASE w \in pending /\ up'[i] = m BY <1>1, <1>2, <1>8, <3>2
    <3>3. CASE w = m /\ i \in 1..Len(up) /\ up'[i] = up[i] BY <1>1, <1>2, <1>8, <3>3
    <3>4. CASE w \in pending /\ i \in 1..Len(up) /\ up'[i] = up[i] BY <3>4 DEF Inv, IdsInv
    <3>5. QED BY <1>3, <1>6, <3>1, <3>2, <3>3, <3>4
  <2>5. QED BY <2>1, <2>2, <2>3, <2>4 DEF IdsInv
<1>10. AskedInv'
  <2>1. \A i \in 1..Len(up') : Ok(up'[i].r) BY <1>2, <1>6 DEF Inv, AskedInv
  <2>2. \A i \in 1..Len(up') : Ok(up[i].r)' BY <2>1 DEF Ok
  <2>3. \A d \in dialog' : \A p \in d.req : Ok(p)' BY DEF DialogFine, Ok
  <2>4. \A i \in 1..Len(down'), w \in pending' :
          w.id = down'[i].id /\ down'[i].res = "disrupt" => w.r.cmd \in refused'
    BY <1>1, <1>2, <1>3, <1>8 DEF Inv, AskedInv
  <2>5. QED BY <2>2, <2>3, <2>4 DEF AskedInv
<1>11. QED BY <1>7, <1>9, <1>10 DEF Inv

\* A step with nothing sent or answered.
LEMMA StillKept ==
  ASSUME Inv, UNCHANGED <<up, pending, down, refused>>, DialogFine, FormFine,
         used'.ids = used.ids, used'.forms \in Nat, DOMAIN used' = Counters
  PROVE  Inv'
<1>1. Typed' BY DEF Inv, Typed, DialogFine, FormFine
<1>2. IdsInv' BY DEF Inv, IdsInv
<1>3. AskedInv'
  <2>1. \A i \in 1..Len(up') : Ok(up[i].r)' BY DEF Inv, AskedInv, Ok
  <2>2. \A d \in dialog' : \A p \in d.req : Ok(p)' BY DEF DialogFine, Ok
  <2>3. QED BY <2>1, <2>2 DEF Inv, AskedInv
<1>4. QED BY <1>1, <1>2, <1>3 DEF Inv

------------------------------------------------------------------------------
\* Keys.

LEMMA SameDialog == Inv /\ UNCHANGED dialog => DialogFine
BY DEF Inv, Typed, AskedInv, DialogFine

LEMMA SameForm == Inv /\ UNCHANGED form => FormFine
BY DEF Inv, Typed, FormFine

LEMMA StutterKept ==
  ASSUME Inv, UNCHANGED <<up, pending, down, refused, used>>, DialogFine, FormFine
  PROVE  Inv'
<1>1. used'.ids = used.ids /\ used'.forms \in Nat /\ DOMAIN used' = Counters BY DEF Inv, Typed
<1>2. QED BY <1>1, StillKept

\* y sends what the dialog holds.
LEMMA DialogKeyKept ==
  ASSUME Inv, NEW k, dialog_key(k), UNCHANGED <<form, down, refused>>
  PROVE  Inv'
<1>1. PICK d \in dialog :
        \/ /\ d.req # {} /\ dialog' = {} /\ Spent("ids") /\ \A r \in d.req : Send(r)
        \/ dialog' = {} /\ NoSend /\ UNCHANGED used
        \/ NoSend /\ UNCHANGED <<dialog, used>>
  BY DEF dialog_key
<1>2. DialogFine BY <1>1, SameDialog DEF DialogFine
<1>3. FormFine BY SameForm
<1>4. CASE d.req # {} /\ Spent("ids") /\ \A r \in d.req : Send(r)
  <2>1. PICK q \in d.req : Send(q) BY <1>4
  <2>2. q \in Reqs /\ Ok(q) BY DEF Inv, Typed, AskedInv
  <2>3. QED BY <1>2, <1>3, <1>4, <2>1, <2>2, SendKept
<1>5. CASE NoSend /\ UNCHANGED used BY <1>2, <1>3, <1>5, StutterKept DEF NoSend
<1>6. QED BY <1>1, <1>4, <1>5

LEMMA FormKeyKept ==
  ASSUME Inv, NEW k, form_key(k), UNCHANGED <<down, refused>>
  PROVE  Inv'
<1>1. DialogFine BY SameDialog DEF form_key
<1>2. PICK f \in form :
        \/ /\ Spent("ids") /\ form' = {[f EXCEPT !.wrong = FALSE]}
           /\ Send(Req([what |-> "add", row |-> f.n], TRUE, "consent", FALSE, f.n))
        \/ form' = {} /\ NoSend /\ UNCHANGED used
        \/ NoSend /\ UNCHANGED <<form, used>>
  BY DEF form_key
<1>3. f = [n |-> f.n, wrong |-> f.wrong] /\ f.n \in Nat BY DEF Inv, Typed
<1>4. FormFine
  <2>1. PICK g : g = [f EXCEPT !.wrong = FALSE] OBVIOUS
  <2>2. g = [n |-> g.n, wrong |-> g.wrong] /\ g.n \in Nat BY <1>3, <2>1
  <2>3. QED BY <1>2, <2>1, <2>2, SameForm DEF FormFine
<1>5. CASE /\ Spent("ids") /\ Send(Req([what |-> "add", row |-> f.n], TRUE, "consent", FALSE, f.n))
  <2>1. PICK c : c = [what |-> "add", row |-> f.n] OBVIOUS
  <2>2. c \in Cmds BY <1>3, <2>1 DEF Cmds, Whats, Consented, RowIds
  <2>3. PICK q : q = Req(c, TRUE, "consent", FALSE, f.n) OBVIOUS
  <2>4. q \in Reqs /\ Ok(q) BY <1>3, <2>2, <2>3, ReqParts DEF Ok
  <2>5. QED BY <1>1, <1>4, <1>5, <2>1, <2>3, <2>4, SendKept
<1>6. CASE NoSend /\ UNCHANGED used BY <1>1, <1>4, <1>6, StutterKept DEF NoSend
<1>7. QED BY <1>2, <1>5, <1>6

LEMMA ViewKeyKept ==
  ASSUME Inv, NEW k, NEW r \in Rows, view_key(k, r), UNCHANGED <<down, refused>>
  PROVE  Inv'
<1>. DEFINE o == OnKey(k, r)
<1>1. Fit(o) BY OnKeyFits
<1>. HIDE DEF o
<1>2. \/ Spent("forms") /\ form' = {[n |-> used'.forms, wrong |-> FALSE]} /\ NoSend /\ UNCHANGED dialog
      \/ NoSend /\ UNCHANGED <<dialog, form, used>>
      \/ /\ UNCHANGED <<form, dialog>> /\ o.does = "send" /\ Spent("ids") /\ \A q \in o.req : Send(q)
      \/ UNCHANGED form /\ NoSend /\ UNCHANGED used /\ (dialog' = {[req |-> o.req]} \/ dialog' = dialog)
  BY DEF view_key, o
<1>3. CASE Spent("forms") /\ form' = {[n |-> used'.forms, wrong |-> FALSE]} /\ NoSend /\ UNCHANGED dialog
  <2>1. Typed BY DEF Inv
  <2>2. used'.ids = used.ids /\ used'.forms \in Nat /\ DOMAIN used' = Counters BY <1>3, <2>1, SpentOther
  <2>3. FormFine BY <1>3, <2>2 DEF FormFine
  <2>4. QED BY <1>3, <2>2, <2>3, SameDialog, StillKept DEF NoSend
<1>4. CASE NoSend /\ UNCHANGED <<dialog, form, used>> BY <1>4, SameDialog, SameForm, StutterKept DEF NoSend
<1>5. CASE UNCHANGED <<form, dialog>> /\ o.does = "send" /\ Spent("ids") /\ \A q \in o.req : Send(q)
  <2>1. PICK q \in o.req : Send(q) /\ q \in Reqs /\ Ok(q) BY <1>1, <1>5 DEF Fit
  <2>2. QED BY <1>5, <2>1, SameDialog, SameForm, SendKept
<1>6. CASE UNCHANGED form /\ NoSend /\ UNCHANGED used /\ (dialog' = {[req |-> o.req]} \/ dialog' = dialog)
  <2>1. DialogFine BY <1>1, <1>6, SameDialog DEF DialogFine, Fit
  <2>2. QED BY <1>6, <2>1, SameForm, StutterKept DEF NoSend
<1>7. QED BY <1>2, <1>3, <1>4, <1>5, <1>6

LEMMA KeyKept ==
  ASSUME Inv, NEW r \in Rows, key(r)
  PROVE  Inv'
<1>1. UNCHANGED <<down, refused>> BY DEF key, Daemon
<1>2. CASE dialog_key(Head(keys)) /\ UNCHANGED form BY <1>1, <1>2, DialogKeyKept
<1>3. CASE form_key(Head(keys)) BY <1>1, <1>3, FormKeyKept
<1>4. CASE view_key(Head(keys), r) BY <1>1, <1>4, ViewKeyKept
<1>5. QED BY <1>2, <1>3, <1>4 DEF key

------------------------------------------------------------------------------
\* Answers.

LEMMA AsksOne ==
  ASSUME NEW q \in Reqs, Ok(q), dialog' = {[req |-> {q}]}
  PROVE  DialogFine
<1>1. PICK d : d = [req |-> {q}] OBVIOUS
<1>2. d.req = {q} BY <1>1
<1>3. QED BY <1>1, <1>2 DEF DialogFine

\* A question about a change that was refused, or for one that isn't forced.
LEMMA ConsentFine ==
  ASSUME Inv, NEW r \in Reqs, NEW m, on_consent(r, m), m.res = "disrupt" => r.cmd \in refused
  PROVE  DialogFine
<1>1. r.cmd \in Cmds BY DEF Reqs
<1>2. CASE UNCHANGED dialog BY <1>2, SameDialog
<1>3. CASE m.res = "disrupt" /\ dialog' = {[req |-> {Req(r.cmd, FALSE, "done", FALSE, 0)}]}
  <2>1. PICK q : q = Req(r.cmd, FALSE, "done", FALSE, 0) OBVIOUS
  <2>2. q \in Reqs /\ q.cmd = r.cmd BY <1>1, <2>1 DEF Req, Reqs
  <2>3. Ok(q) BY <1>3, <2>2 DEF Ok
  <2>4. QED BY <1>3, <2>1, <2>2, <2>3, AsksOne
<1>4. CASE dialog' = {[req |-> {Req([what |-> "switch", row |-> r.cmd.row], TRUE, "consent", FALSE, 0)}]}
  <2>1. PICK c : c = [what |-> "switch", row |-> r.cmd.row] OBVIOUS
  <2>2. c \in Cmds BY <1>1, <2>1 DEF Cmds, Whats, Consented
  <2>3. PICK q : q = Req(c, TRUE, "consent", FALSE, 0) OBVIOUS
  <2>4. q \in Reqs /\ Ok(q) BY <2>2, <2>3, ReqParts DEF Ok
  <2>5. QED BY <1>4, <2>1, <2>3, <2>4, AsksOne
<1>5. CASE dialog' = {[req |-> {}]} BY <1>5 DEF DialogFine
<1>6. QED BY <1>2, <1>3, <1>4, <1>5 DEF on_consent, error

LEMMA TailOf ==
  ASSUME NEW S, NEW s \in Seq(S), s # <<>>
  PROVE  /\ Tail(s) \in Seq(S) /\ Len(s) \in Nat /\ 1 \in 1..Len(s) /\ Head(s) = s[1] /\ Head(s) \in S
         /\ \A i \in 1..Len(Tail(s)) : i + 1 \in 1..Len(s) /\ Tail(s)[i] = s[i + 1]
OBVIOUS

LEMMA AnswerKept ==
  ASSUME Inv, on_answer
  PROVE  Inv'
<1>. DEFINE m == Head(down)
<1>1. down \in Seq(Says) /\ down # <<>> /\ down' = Tail(down) BY DEF Inv, Typed, on_answer
<1>2. /\ down' \in Seq(Says) /\ 1 \in 1..Len(down) /\ m = down[1]
      /\ \A i \in 1..Len(down') : i + 1 \in 1..Len(down) /\ down'[i] = down[i + 1]
  BY <1>1, TailOf
<1>. HIDE DEF m
<1>3. PICK w \in pending :
        /\ w.id = m.id /\ pending' = pending \ {w}
        /\ \/ form' = {[f EXCEPT !.wrong = TRUE] : f \in form} /\ UNCHANGED dialog
           \/ (form' = {} \/ form' = form) /\ on_consent(w.r, m)
  BY DEF on_answer, m
<1>4. w \in Msgs /\ w.r \in Reqs BY DEF Inv, Typed, Msgs
<1>5. m.res = "disrupt" => w.r.cmd \in refused BY <1>2, <1>3 DEF Inv, AskedInv
<1>6. DialogFine BY <1>3, <1>4, <1>5, ConsentFine, SameDialog
<1>7. FormFine
  <2>1. CASE form' = {[f EXCEPT !.wrong = TRUE] : f \in form}
    <3>1. SUFFICES ASSUME NEW f \in form, NEW g, g = [f EXCEPT !.wrong = TRUE]
                   PROVE  g = [n |-> g.n, wrong |-> g.wrong] /\ g.n \in Nat
      BY <2>1 DEF FormFine
    <3>2. f = [n |-> f.n, wrong |-> f.wrong] /\ f.n \in Nat BY DEF Inv, Typed
    <3>3. QED BY <3>1, <3>2
  <2>2. CASE form' = {} \/ form' = form BY <2>2 DEF FormFine, Inv, Typed
  <2>3. QED BY <1>3, <2>1, <2>2
<1>8. UNCHANGED <<up, refused, used>> BY DEF on_answer, Daemon
<1>9. Typed' BY <1>2, <1>3, <1>6, <1>7, <1>8 DEF Inv, Typed, DialogFine, FormFine
<1>10. IdsInv' BY <1>2, <1>3, <1>8 DEF Inv, IdsInv
<1>11. AskedInv'
  <2>1. \A i \in 1..Len(up') : Ok(up[i].r)' BY <1>8 DEF Inv, AskedInv, Ok
  <2>2. \A d \in dialog' : \A p \in d.req : Ok(p)' BY <1>6, <1>8 DEF DialogFine, Ok
  <2>3. \A i \in 1..Len(down'), v \in pending' :
          v.id = down'[i].id /\ down'[i].res = "disrupt" => v.r.cmd \in refused'
    BY <1>2, <1>3, <1>8 DEF Inv, AskedInv
  <2>4. QED BY <2>1, <2>2, <2>3 DEF AskedInv
<1>12. QED BY <1>9, <1>10, <1>11 DEF Inv

\* With the connection goes what was sent, answered and waiting.
LEMMA LostKept ==
  ASSUME Inv, Lost
  PROVE  Inv'
<1>1. Typed /\ Spent("losses") BY DEF Inv, Lost, Spend, Spent
<1>2. used'.ids = used.ids /\ used'.forms \in Nat /\ DOMAIN used' = Counters BY <1>1, SpentOther
<1>3. up' = <<>> /\ down' = <<>> /\ pending' = {} /\ UNCHANGED <<dialog, form, refused>> BY DEF Lost, Daemon
<1>4. up' \in Seq(Msgs) /\ down' \in Seq(Says) /\ Len(up') = 0 /\ Len(down') = 0 BY <1>3
<1>5. Typed' BY <1>2, <1>3, <1>4 DEF Inv, Typed
<1>6. IdsInv' BY <1>3, <1>4 DEF IdsInv
<1>7. AskedInv'
  <2>1. \A d \in dialog' : \A p \in d.req : Ok(p)' BY <1>3 DEF Inv, AskedInv, Ok
  <2>2. QED BY <1>3, <1>4, <2>1 DEF AskedInv
<1>8. QED BY <1>5, <1>6, <1>7 DEF Inv

\* The daemon refuses the command that waits for this answer.
LEMMA HandleKept ==
  ASSUME Inv, Handle
  PROVE  Inv'
<1>. DEFINE c == Head(up)
<1>1. up \in Seq(Msgs) /\ up # <<>> /\ up' = Tail(up) /\ down \in Seq(Says) BY DEF Inv, Typed, Handle
<1>2. /\ up' \in Seq(Msgs) /\ 1 \in 1..Len(up) /\ c = up[1] /\ c \in Msgs
      /\ \A i \in 1..Len(up') : i + 1 \in 1..Len(up) /\ up'[i] = up[i + 1]
  BY <1>1, TailOf
<1>. HIDE DEF c
<1>3. PICK res \in {"disrupt", "conflict", "error", "ok"} :
        /\ down' = Append(down, [id |-> c.id, res |-> res])
        /\ IF res = "disrupt" THEN refused' = refused \cup {c.r.cmd} ELSE refused' = refused
  BY DEF Handle, c
<1>4. UNCHANGED <<dialog, form, pending, used>> BY DEF Handle
<1>5. PICK m : m = [id |-> c.id, res |-> res] OBVIOUS
<1>6. m \in Says /\ m.id = c.id /\ m.res = res
  <2>1. c.id \in Nat BY <1>2 DEF Msgs
  <2>2. QED BY <1>5, <2>1 DEF Says
<1>7. /\ down' \in Seq(Says)
      /\ \A i \in 1..Len(down') : (i \in 1..Len(down) /\ down'[i] = down[i]) \/ down'[i] = m
  BY <1>1, <1>3, <1>5, <1>6
<1>8. refused \subseteq refused' /\ (res = "disrupt" => c.r.cmd \in refused') BY <1>3
<1>9. Typed' BY <1>2, <1>4, <1>7 DEF Inv, Typed
<1>10. IdsInv'
  <2>1. m.id <= used.ids BY <1>2, <1>6 DEF Inv, IdsInv
  <2>2. \A i \in 1..Len(down') : down'[i].id <= used.ids BY <1>7, <2>1 DEF Inv, IdsInv
  <2>3. \A i \in 1..Len(up') : up'[i].id <= used.ids BY <1>2 DEF Inv, IdsInv
  <2>4. ASSUME NEW i \in 1..Len(up'), NEW w \in pending, w.id = up'[i].id PROVE w.r = up'[i].r
    <3>1. i + 1 \in 1..Len(up) /\ up'[i] = up[i + 1] BY <1>2
    <3>2. QED BY <2>4, <3>1 DEF Inv, IdsInv
  <2>5. QED BY <1>4, <2>2, <2>3, <2>4 DEF Inv, IdsInv
<1>11. AskedInv'
  <2>1. \A i \in 1..Len(up') : Ok(up'[i].r) BY <1>2 DEF Inv, AskedInv
  <2>2. \A i \in 1..Len(up') : Ok(up[i].r)' BY <1>8, <2>1 DEF Ok
  <2>3. \A d \in dialog' : \A p \in d.req : Ok(p)' BY <1>4, <1>8 DEF Inv, AskedInv, Ok
  <2>4. ASSUME NEW i \in 1..Len(down'), NEW w \in pending', w.id = down'[i].id, down'[i].res = "disrupt"
        PROVE  w.r.cmd \in refused'
    <3>1. CASE i \in 1..Len(down) /\ down'[i] = down[i] BY <1>4, <1>8, <2>4, <3>1 DEF Inv, AskedInv
    <3>2. CASE down'[i] = m
      <4>1. w.id = c.id /\ res = "disrupt" BY <1>6, <2>4, <3>2
      <4>2. w.r = c.r BY <1>2, <1>4, <4>1 DEF Inv, IdsInv
      <4>3. QED BY <1>8, <4>1, <4>2
    <3>3. QED BY <1>7, <3>1, <3>2
  <2>5. QED BY <2>2, <2>3, <2>4 DEF AskedInv
<1>12. QED BY <1>9, <1>10, <1>11 DEF Inv

------------------------------------------------------------------------------

LEMMA InitInv == Init => Inv
<1>. SUFFICES ASSUME Init PROVE Inv OBVIOUS
<1>1. used.ids = 0 /\ used.forms = 0 /\ DOMAIN used = Counters BY DEF Init, Counters
<1>2. up \in Seq(Msgs) /\ down \in Seq(Says) /\ Len(up) = 0 /\ Len(down) = 0 BY DEF Init
<1>3. QED BY <1>1, <1>2 DEF Init, Inv, Typed, IdsInv, AskedInv

LEMMA NextInv == Inv /\ [Next]_vars => Inv'
<1>1. ASSUME Inv, UNCHANGED vars PROVE Inv'
  <2>1. UNCHANGED <<dialog, form, up, pending, down, refused, used>> BY <1>1 DEF vars
  <2>2. QED BY <1>1, <2>1, SameDialog, SameForm, StutterKept
<1>. SUFFICES ASSUME Inv, Next PROVE Inv' BY <1>1
<1>2. CASE \E r \in Rows : key(r) BY <1>2, KeyKept
<1>3. CASE on_answer \/ Lost \/ Handle BY <1>3, AnswerKept, LostKept, HandleKept
<1>4. CASE (\E a \in Apps : Arrive(a)) \/ \E k \in used.bound.pressed : Press(k)
  <2>1. UNCHANGED <<dialog, form, up, pending, down, refused>> BY <1>4 DEF Arrive, Press
  <2>2. PICK what \in {"keys", "arrivals"} : Spent(what) BY <1>4 DEF Arrive, Press, Spend, Spent
  <2>3. Typed BY DEF Inv
  <2>4. used'.ids = used.ids /\ used'.forms \in Nat /\ DOMAIN used' = Counters BY <2>2, <2>3, SpentOther
  <2>5. QED BY <2>1, <2>4, SameDialog, SameForm, StillKept
<1>5. QED BY <1>2, <1>3, <1>4 DEF Next

\* A change is forced only after the daemon has refused the same change because it would
\* disrupt someone, for any rows, keys, apps and lost connections (on_consent, dialog_key).
THEOREM ForcedSafe == Spec => []ForcedAfterRefusal
<1>1. Inv => ForcedAfterRefusal BY DEF Inv, AskedInv, Ok, ForcedAfterRefusal
<1>2. QED BY InitInv, NextInv, <1>1, PTL DEF Spec
=============================================================================
