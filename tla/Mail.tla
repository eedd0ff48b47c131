-------------------------------- MODULE Mail --------------------------------
(***************************************************************************)
(* The e-mail service: EmailHandler                                        *)
(* (src/Servers/GameServer/EmailService/EmailHandler.cpp), the requests    *)
(* the map instance makes of it for its players (DataHelpers.cpp) and the  *)
(* part of the game database that keeps the mail.                          *)
(*                                                                         *)
(* The handler has one queue.  Requests come to it from the map directly;  *)
(* that a client has come or gone comes by way of the game handler and the *)
(* message bus, so it may be overtaken.  The database serves one request   *)
(* at a time, in order.  Mail is not sent to oneself (SlashCommand_Email). *)
(***************************************************************************)
EXTENDS Presence, Naturals, Sequences, FiniteSets, SequencesExt

CONSTANTS NoOne,      \* the database id 0
          MaxMails,   \* bound on mails written
          MaxPending, \* bound on what a client has on its way, and on
                      \* what the database has to do when a letter is read
          Habits      \* what players do besides waiting for their answers:
                      \* "hasty"   act, or leave, before the answer
                      \* "deletes" delete mail
                      \* "early"   arrive before the mail has been loaded
                      \* "dberror" the database cannot store a mail

ASSUME MailAssumption ==
    /\ NoOne \notin Characters /\ MaxMails \in Nat /\ MaxPending \in Nat
    /\ Habits \subseteq {"hasty", "deletes", "early", "dberror"}

VARIABLES clients,   \* m_stored_client_datas
          mails,     \* m_stored_email_datas
          dbmails,   \* the mail in the database
          mailq,     \* the handler's queue
          maildb,    \* the database's queue
          bus,       \* arrivals and departures on their way
          shown,     \* history: the mails on each client's list
          awaiting,  \* history: who has sent mail and waits to hear of it
          written,   \* mails written so far
          habit,     \* what the players of this behaviour do
          crashed    \* a message was put on the queue of a null map instance

mailVars == <<here, clients, mails, dbmails, mailq, maildb, bus,
              shown, awaiting, written, habit, crashed>>

MailIds == 1..MaxMails
Ids == Characters \union {NoOne}

(* A client of which only the key is known has no map.                     *)
Entries == [known : BOOLEAN, received : SUBSET MailIds]
Phantom == [known |-> FALSE, received |-> {}]

Letters == [from : Ids, to : Ids, read : BOOLEAN]
NoLetter == [from |-> NoOne, to |-> NoOne, read |-> FALSE]

MailEvents ==
    [type : {"Send", "Filled"}, from : Characters, to : Ids]
    \union [type : {"FillError", "Header", "Connected", "Disconnected"}, from : Characters]
    \union [type : {"Created"}, from : Characters, to : Characters, id : MailIds]
    \union [type : {"Read", "Delete"}, from : Characters, id : MailIds]
    \union [type : {"Emails"}, from : {NoOne}]

MailRequests ==
    [type : {"Fill", "Create"}, from : Characters, to : Ids]
    \union [type : {"MarkAsRead", "Remove"}, id : MailIds]
    \union [type : {"GetEmails"}]

(* The type invariant of the mail.                                         *)
MailTypeOK ==
    /\ DOMAIN clients \subseteq Ids /\ clients \in [DOMAIN clients -> Entries]
    /\ DOMAIN mails \subseteq MailIds /\ mails \in [DOMAIN mails -> Letters]
    /\ DOMAIN dbmails \subseteq MailIds /\ dbmails \in [DOMAIN dbmails -> Letters]
    /\ mailq \in Seq(MailEvents)
    /\ maildb \in Seq(MailRequests)
    /\ bus \in Seq([type : {"Connected", "Disconnected"}, from : Characters])
    /\ shown \in [Characters -> SUBSET MailIds]
    /\ awaiting \subseteq Characters
    /\ written \in 0..MaxMails
    /\ habit \subseteq Habits
    /\ crashed \in BOOLEAN

-----------------------------------------------------------------------------
(* operator[] of the maps: a key that is not there is there afterwards     *)

At(m, k, default) == IF k \in DOMAIN m THEN m[k] ELSE default

With(m, k, v) == [j \in DOMAIN m \union {k} |-> IF j = k THEN v ELSE m[j]]

Touched(m, k, default) == With(m, k, At(m, k, default))

Without(m, k) == Restrict(m, DOMAIN m \ {k})

(* getMapInstance_Handler finds no instance for a client that is not known *)
HasMap(cs, c) == At(cs, c, Phantom).known

-----------------------------------------------------------------------------
(* What the players do.  A patient player has heard of its arrival and of  *)
(* everything it asked for; a hasty one has up to MaxPending messages and  *)
(* reports on their way.                                                   *)

Of(q, c) == {i \in DOMAIN q : q[i].from = c}

Pending(c) ==
    Cardinality(Of(mailq, c)) + Cardinality(Of(bus, c)) + (IF c \in awaiting THEN 1 ELSE 0)

MayAct(c) ==
    /\ c \in here /\ ~crashed
    /\ Pending(c) < IF "hasty" \in habit THEN MaxPending ELSE 1

PostMail(ev) == mailq' = Append(mailq, ev)

playerRest == <<here, clients, mails, dbmails, maildb, bus, habit, crashed>>

EmailSend(c, to) ==
    /\ MayAct(c) /\ c # to
    /\ c \notin awaiting /\ written < MaxMails
    /\ PostMail([type |-> "Send", from |-> c, to |-> to])
    /\ awaiting' = awaiting \union {c}
    /\ written' = written + 1
    /\ UNCHANGED <<shown, playerRest>>

EmailHeaders(c) ==
    /\ MayAct(c)
    /\ \A i \in DOMAIN mailq : mailq[i].from # c
    /\ PostMail([type |-> "Header", from |-> c])
    /\ UNCHANGED <<shown, awaiting, written, playerRest>>

EmailRead(c, id) ==
    /\ MayAct(c) /\ id \in shown[c]
    /\ Len(maildb) < MaxPending
    /\ \A i \in DOMAIN mailq : mailq[i].type # "Read"
    /\ PostMail([type |-> "Read", from |-> c, id |-> id])
    /\ UNCHANGED <<shown, awaiting, written, playerRest>>

EmailDelete(c, id) ==
    /\ "deletes" \in habit
    /\ MayAct(c) /\ id \in shown[c]
    /\ PostMail([type |-> "Delete", from |-> c, id |-> id])
    /\ shown' = [shown EXCEPT ![c] = @ \ {id}]
    /\ UNCHANGED <<awaiting, written, playerRest>>

Loading ==
    \/ \E i \in DOMAIN maildb : maildb[i].type = "GetEmails"
    \/ \E i \in DOMAIN mailq : mailq[i].type = "Emails"

(* on_entity_response tells the game handler                               *)
MailEnters(c) ==
    /\ ~crashed
    /\ "early" \in habit \/ ~Loading
    /\ Pending(c) < MaxPending
    /\ Enters(c)
    /\ bus' = Append(bus, [type |-> "Connected", from |-> c])
    /\ UNCHANGED <<clients, mails, dbmails, mailq, maildb, shown, awaiting,
                   written, habit, crashed>>

(* So do on_disconnect and on_link_lost                                    *)
MailLeaves(c) ==
    /\ MayAct(c)
    /\ Leaves(c)
    /\ bus' = Append(bus, [type |-> "Disconnected", from |-> c])
    /\ shown' = [shown EXCEPT ![c] = {}]
    /\ awaiting' = awaiting \ {c}
    /\ UNCHANGED <<clients, mails, dbmails, mailq, maildb, written, habit, crashed>>

(* GameHandler, then the message bus, hands it on                          *)
BusDelivers ==
    /\ ~crashed
    /\ bus # << >>
    /\ PostMail(Head(bus))
    /\ bus' = Tail(bus)
    /\ UNCHANGED <<here, clients, mails, dbmails, maildb, shown, awaiting,
                   written, habit, crashed>>

-----------------------------------------------------------------------------
(* The handler                                                             *)

(* An answer is addressed to the session the handler knows of; it is       *)
(* dropped if that session is an earlier one.                              *)
Reaches(c) ==
    /\ c \in here
    /\ \A q \in {mailq, bus} : \A i \in DOMAIN q : q[i] # [type |-> "Connected", from |-> c]

Told(c) == awaiting' = IF Reaches(c) THEN awaiting \ {c} ELSE awaiting

Shows(c, ids) ==
    shown' = IF c \in Characters /\ Reaches(c) THEN [shown EXCEPT ![c] = ids] ELSE shown

Got(type) ==
    /\ ~crashed
    /\ mailq # << >> /\ Head(mailq).type = type
    /\ mailq' = Tail(mailq)
    /\ UNCHANGED <<here, dbmails, bus, written, habit>>

AskDatabase(req) == maildb' = Append(maildb, req)

on_email_send ==
    /\ Got("Send")
    /\ AskDatabase([Head(mailq) EXCEPT !.type = "Fill"])
    /\ UNCHANGED <<clients, mails, shown, awaiting, crashed>>

on_fill_email_recipient_id_response ==
    /\ Got("Filled")
    /\ AskDatabase([Head(mailq) EXCEPT !.type = "Create"])
    /\ UNCHANGED <<clients, mails, shown, awaiting, crashed>>

MutFillError ==
    /\ Got("FillError")
    /\ UNCHANGED <<clients, mails, maildb, shown, awaiting, crashed>>

on_fill_email_recipient_id_error ==
    /\ Got("FillError")
    /\ LET c == Head(mailq).from
       IN  /\ clients' = Touched(clients, c, Phantom)
           /\ crashed' = ~HasMap(clients, c)
           /\ Told(c)
    /\ UNCHANGED <<mails, maildb, shown>>

(* The letter is listed, if the recipient is there.                        *)
Listed(cs, c, id) == [cs EXCEPT ![c].received = @ \union {id}]

MutCreateResponse ==
    /\ Got("Created")
    /\ LET c  == Head(mailq).from
           to == Head(mailq).to
           id == Head(mailq).id
           cs == Touched(Touched(clients, c, Phantom), to, Phantom)
       IN  /\ mails' = With(mails, id, [from |-> c, to |-> to, read |-> FALSE])
           /\ clients' = Listed(cs, to, id)
           /\ crashed' = (~HasMap(cs, c) \/ ~HasMap(cs, to))
           /\ Told(c)
           /\ Shows(to, shown[to] \union {id})
    /\ UNCHANGED maildb

on_email_create_response ==
    /\ Got("Created")
    /\ LET c  == Head(mailq).from
           to == Head(mailq).to
           id == Head(mailq).id
           cs == Touched(clients, c, Phantom)
       IN  /\ mails' = With(mails, id, [from |-> c, to |-> to, read |-> FALSE])
           /\ clients' = IF to \in DOMAIN cs THEN Listed(cs, to, id) ELSE cs
           /\ crashed' = (~HasMap(cs, c) \/ (to \in DOMAIN cs /\ ~HasMap(cs, to)))
           /\ Told(c)
           /\ IF to \in DOMAIN cs THEN Shows(to, shown[to] \union {id}) ELSE UNCHANGED shown
    /\ UNCHANGED maildb

on_email_header ==
    /\ Got("Header")
    /\ LET c   == Head(mailq).from
           ids == At(clients, c, Phantom).received
       IN  /\ clients' = Touched(clients, c, Phantom)
           /\ mails' = [id \in DOMAIN mails \union ids |-> At(mails, id, NoLetter)]
           /\ crashed' = ~HasMap(clients, c)
           /\ Shows(c, ids)
    /\ UNCHANGED <<maildb, awaiting>>

(* A letter that is read goes from the list of those received; it is the   *)
(* recipient the letter names that is answered.                            *)
on_email_read ==
    /\ Got("Read")
    /\ LET id == Head(mailq).id
           letter == At(mails, id, NoLetter)
           to == letter.to
           entry == At(clients, to, Phantom)
           cs == With(clients, to, [entry EXCEPT !.received = @ \ {id}])
       IN  /\ mails' = With(mails, id, [letter EXCEPT !.read = TRUE])
           /\ clients' = cs
           /\ AskDatabase([type |-> "MarkAsRead", id |-> id])
           /\ crashed' = (~HasMap(cs, to) \/ (letter.from \in DOMAIN cs /\ ~HasMap(cs, letter.from)))
    /\ UNCHANGED <<shown, awaiting>>

on_email_delete ==
    /\ Got("Delete")
    /\ LET id == Head(mailq).id
           letter == At(mails, id, NoLetter)
           cs == Touched(Touched(clients, letter.from, Phantom), letter.to, Phantom)
       IN  /\ mails' = Without(mails, id)
           /\ clients' = [cs EXCEPT ![letter.to].received = @ \ {id}]
           /\ AskDatabase([type |-> "Remove", id |-> id])
    /\ UNCHANGED <<shown, awaiting, crashed>>

MutConnected ==
    /\ Got("Connected")
    /\ clients' = With(clients, Head(mailq).from, [known |-> TRUE, received |-> {}])
    /\ shown' = [shown EXCEPT ![Head(mailq).from] = {}]
    /\ UNCHANGED <<mails, maildb, awaiting, crashed>>

on_client_connected ==
    /\ Got("Connected")
    /\ LET c == Head(mailq).from
           ids == {id \in DOMAIN mails : mails[id].to = c}
       IN  /\ clients' = With(clients, c, [known |-> TRUE, received |-> ids])
           /\ shown' = [shown EXCEPT ![c] = IF c \in here THEN ids ELSE @]
    /\ UNCHANGED <<mails, maildb, awaiting, crashed>>

MutDisconnected ==
    /\ Got("Disconnected")
    /\ UNCHANGED <<clients, mails, maildb, shown, awaiting, crashed>>

on_client_disconnected ==
    /\ Got("Disconnected")
    /\ clients' = Without(clients, Head(mailq).from)
    /\ UNCHANGED <<mails, maildb, shown, awaiting, crashed>>

(* The letters are those in the database when it was asked; none can have  *)
(* been written there since.                                               *)
on_get_emails_response ==
    /\ Got("Emails")
    /\ mails' = [id \in DOMAIN mails \union DOMAIN dbmails |->
                    IF id \in DOMAIN dbmails THEN dbmails[id] ELSE mails[id]]
    /\ UNCHANGED <<clients, maildb, shown, awaiting, crashed>>

-----------------------------------------------------------------------------
(* The database                                                            *)

Serves(type) ==
    /\ ~crashed
    /\ maildb # << >> /\ Head(maildb).type = type
    /\ maildb' = Tail(maildb)
    /\ UNCHANGED <<here, clients, mails, bus, shown, awaiting, written, habit, crashed>>

fillEmailRecipientId ==
    /\ Serves("Fill")
    /\ PostMail(IF Head(maildb).to \in Characters
                THEN [Head(maildb) EXCEPT !.type = "Filled"]
                ELSE [type |-> "FillError", from |-> Head(maildb).from])
    /\ UNCHANGED dbmails

(* An error is posted to the handler as well, which has no case for it.    *)
createEmail ==
    /\ Serves("Create")
    /\ \/ LET req == Head(maildb)
              id  == Cardinality(DOMAIN dbmails) + 1
          IN  /\ dbmails' = With(dbmails, id, [from |-> req.from, to |-> req.to, read |-> FALSE])
              /\ PostMail([type |-> "Created", from |-> req.from, to |-> req.to, id |-> id])
       \/ /\ "dberror" \in habit
          /\ UNCHANGED <<dbmails, mailq>>

MutMarkAsRead ==
    /\ Serves("MarkAsRead")
    /\ UNCHANGED <<dbmails, mailq>>

markEmailAsRead ==
    /\ Serves("MarkAsRead")
    /\ dbmails' = [id \in DOMAIN dbmails |->
                      IF id = Head(maildb).id THEN [dbmails[id] EXCEPT !.read = TRUE] ELSE dbmails[id]]
    /\ UNCHANGED mailq

(* deleteEmail prepares the deletion of the letter but runs the statement  *)
(* that deletes a character: the letter stays.                             *)
deleteEmail ==
    /\ Serves("Remove")
    /\ UNCHANGED <<dbmails, mailq>>

getEmails ==
    /\ Serves("GetEmails")
    /\ PostMail([type |-> "Emails", from |-> NoOne])
    /\ UNCHANGED dbmails

-----------------------------------------------------------------------------
(* The service starts by loading what the database keeps.                  *)
MailInit ==
    /\ clients = << >> /\ mails = << >> /\ dbmails = << >>
    /\ mailq = << >> /\ maildb = <<[type |-> "GetEmails"]>> /\ bus = << >>
    /\ shown = [c \in Characters |-> {}]
    /\ awaiting = {} /\ written = 0
    /\ crashed = FALSE

(* It does again when the server is restarted, after a crash or without    *)
(* one: what was on the queues is lost.                                    *)
Restarts ==
    /\ here' = {}
    /\ clients' = << >> /\ mails' = << >>
    /\ mailq' = << >> /\ maildb' = <<[type |-> "GetEmails"]>> /\ bus' = << >>
    /\ shown' = [c \in Characters |-> {}]
    /\ awaiting' = {} /\ written' = Cardinality(DOMAIN dbmails)
    /\ crashed' = FALSE
    /\ UNCHANGED <<dbmails, habit>>

MailNext(cast) ==
    \/ \E c \in cast :
          \/ \E to \in cast \union {NoOne} : EmailSend(c, to)
          \/ \E id \in MailIds : EmailRead(c, id) \/ EmailDelete(c, id)
          \/ EmailHeaders(c) \/ MailEnters(c) \/ MailLeaves(c)
    \/ BusDelivers
    \/ on_email_send \/ on_fill_email_recipient_id_response
    \/ on_fill_email_recipient_id_error \/ on_email_create_response
    \/ on_email_header \/ on_email_read \/ on_email_delete
    \/ on_client_connected \/ on_client_disconnected \/ on_get_emails_response
    \/ fillEmailRecipientId \/ createEmail \/ markEmailAsRead \/ deleteEmail \/ getEmails
    \/ Restarts

-----------------------------------------------------------------------------
InFlight(type, id) ==
    \E q \in {mailq, maildb} : \E i \in DOMAIN q :
        q[i].type = type /\ "id" \in DOMAIN q[i] /\ q[i].id = id

(* The letters the handler keeps are those in the database, as far as      *)
(* nothing about them is on its way: none is missing after a restart, none *)
(* is read on one side only, and none is kept that was never stored.       *)
MirrorsDatabase ==
    ~crashed /\ ~Loading =>
        /\ DOMAIN mails \subseteq DOMAIN dbmails
        /\ "deletes" \notin habit =>
              \A id \in DOMAIN dbmails : id \in DOMAIN mails \/ InFlight("Created", id)
        /\ \A id \in DOMAIN mails :
              mails[id] = dbmails[id] \/ InFlight("MarkAsRead", id)

(* A client that is there has every letter to it on its list that it has   *)
(* not read, and no letter that is not kept.                               *)
UnreadIsListed ==
    ~crashed /\ "early" \notin habit =>
        \A c \in DOMAIN clients : clients[c].known =>
            /\ clients[c].received \subseteq DOMAIN mails
            /\ \A id \in DOMAIN mails :
                  mails[id].to = c /\ ~mails[id].read => id \in clients[c].received

(* Whoever waits to hear of a mail it sent will: the mail is in one of the *)
(* queues.  A hasty client's answer may go to its session before this one; *)
(* a database error is never passed on.                                    *)
AnswerIsComing ==
    ~crashed /\ habit \intersect {"hasty", "dberror"} = {} =>
        \A c \in awaiting : \E q \in {mailq, maildb} : \E i \in DOMAIN q :
            q[i].type \in {"Send", "Fill", "Filled", "FillError", "Create", "Created"} /\ q[i].from = c

(* What the service knows of a client is what the map has reported, and    *)
(* what it has not heard yet is on its way to it.                          *)
After(q, c, known) ==
    LET reports == {i \in DOMAIN q : q[i] \in [type : {"Connected", "Disconnected"}, from : {c}]}
    IN  IF reports = {} THEN known ELSE q[Max(reports)].type = "Connected"

EntryFollowsPresence ==
    ~crashed => \A c \in Characters :
        After(bus, c, After(mailq, c, HasMap(clients, c))) <=> c \in here

(* No answer is put on the queue of a map instance that does not exist,    *)
(* unless a client did not wait or had mail deleted.                       *)
MailNeverFails ==
    habit \intersect {"hasty", "deletes"} = {} => ~crashed
=============================================================================
