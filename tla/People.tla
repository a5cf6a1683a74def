------------------------------- MODULE People -------------------------------
(***************************************************************************)
(* Who a customer is.  A person is one row for all businesses, found by    *)
(* e-mail or else by telephone; a business keeps a link to each of its     *)
(* customers; an account belongs to one person.  A business registers a    *)
(* customer with one query after the other, opening an account and editing *)
(* one's profile check first and then write in one transaction.  A         *)
(* customer who books is linked to the business by a queue consumer.       *)
(*                                                                         *)
(* Names, documents, notes and the device of a guest are left out.         *)
(***************************************************************************)
EXTENDS Naturals

CONSTANTS
    Shops,        \* businesses
    People,       \* rows of persons that may be made
    Customers,    \* accounts that may be opened
    Mails,        \* e-mail addresses
    Numbers,      \* telephone numbers
    Clerks,       \* requests that may be under way at once
    MaxClerks,    \* bound: requests in all
    Checks,       \* bookings that may be made
    Absent        \* no row, or no value

VARIABLES
    person,    \* each person: Absent or [mail, phone]
    link,      \* each <<shop, person>>: Absent or [verified]
    account,   \* each account: Absent or [mail, person]
    clerk,     \* what each request is doing
    clerks,    \* how many there have been
    check,     \* each booking: Absent, or what became of its message
    strayed    \* accounts whose person has had another e-mail

peopleVars == <<person, link, account, clerk, clerks, check, strayed>>

(* A telephone as a row keeps it: the number in one of two forms.  The     *)
(* business's form is stripped to the number when it registers a customer, *)
(* and gets "+55" when it edits him; the customer's own is kept as         *)
(* written.                                                                *)
Forms == {"plain", "+55"}
Phones == [number : Numbers, form : Forms] \cup {Absent}

(* The rows, and what a request and a booking carry with them.             *)
PersonRow == [mail : Mails \cup {Absent}, phone : Phones]
AccountRow == [mail : Mails, person : People]
LinkRow == [verified : BOOLEAN]
ClerkRow ==
    [at : {"by phone", "create person"}, shop : Shops, mail : Mails \cup {Absent}, phone : Phones]
    \cup [at : {"link"}, shop : Shops, person : People]
    \cup [at : {"open"}, user : Customers, mail : Mails, phone : Phones]
    \cup [at : {"edit"}, user : Customers, mail : Mails \cup {Absent}, phone : Phones]
CheckRow == [at : {"queued", "lost", "link", "done"}, shop : Shops, person : People]

ASSUME PeopleAssumption ==
    /\ MaxClerks \in Nat
    /\ Absent \notin Mails \cup PersonRow \cup AccountRow \cup LinkRow \cup ClerkRow \cup CheckRow

normalizePhoneBR(phone) == IF phone = Absent THEN Absent ELSE [phone EXCEPT !.form = "plain"]
toE164(phone) == IF phone = Absent THEN Absent ELSE [phone EXCEPT !.form = "+55"]

PeopleInit ==
    /\ person = [p \in People |-> Absent]
    /\ link = [l \in Shops \X People |-> Absent]
    /\ account = [u \in Customers |-> Absent]
    /\ clerk = [c \in Clerks |-> Absent] /\ clerks = 0
    /\ check = [k \in Checks |-> Absent]
    /\ strayed = {}

Known == {p \in People : person[p] # Absent}
WithMail(m) == {p \in Known : m # Absent /\ person[p].mail = m}
WithPhone(t) == {p \in Known : t # Absent /\ person[p].phone = t}
OfMail(m) == {u \in Customers : account[u] # Absent /\ account[u].mail = m}
OfPerson(p) == {u \in Customers : account[u] # Absent /\ account[u].person = p}

\* The unique indexes of the table, for row p about to hold r.
Unique(p, r) == WithMail(r.mail) \subseteq {p} /\ WithPhone(r.phone) \subseteq {p}

ClerkAt(c, place) == clerk[c] # Absent /\ clerk[c].at = place
Enters(c, asked) ==
    /\ clerk[c] = Absent /\ clerks < MaxClerks
    /\ clerk' = [clerk EXCEPT ![c] = asked]
    /\ clerks' = clerks + 1
Leaves(c) == clerk' = [clerk EXCEPT ![c] = Absent] /\ UNCHANGED clerks

-----------------------------------------------------------------------------
(* A business registers a customer: the person with the e-mail, else the   *)
(* one with the telephone, else a new one.                                 *)
Register(c, s, mail, phone) ==
    LET t == normalizePhoneBR(phone)
        found == WithMail(mail)
    IN /\ IF found = {}
          THEN Enters(c, [at |-> "by phone", shop |-> s, mail |-> mail, phone |-> t])
          ELSE \E p \in found : Enters(c, [at |-> "link", shop |-> s, person |-> p])
       /\ UNCHANGED <<person, link, account, check, strayed>>

FindByPhone(c) ==
    /\ ClerkAt(c, "by phone")
    /\ LET found == WithPhone(clerk[c].phone) IN
       IF found = {}
       THEN clerk' = [clerk EXCEPT ![c].at = "create person"]
       ELSE \E p \in found :
                clerk' = [clerk EXCEPT ![c] = [at |-> "link", shop |-> clerk[c].shop, person |-> p]]
    /\ UNCHANGED <<person, link, account, clerks, check, strayed>>

\* What another has inserted meanwhile makes it fail, and the request end.
CreatePerson(c, p) ==
    /\ ClerkAt(c, "create person") /\ person[p] = Absent
    /\ LET r == [mail |-> clerk[c].mail, phone |-> clerk[c].phone] IN
       IF Unique(p, r)
       THEN /\ person' = [person EXCEPT ![p] = r]
            /\ clerk' = [clerk EXCEPT ![c] = [at |-> "link", shop |-> clerk[c].shop, person |-> p]]
            /\ UNCHANGED clerks
       ELSE Leaves(c) /\ UNCHANGED person
    /\ UNCHANGED <<link, account, check, strayed>>

(* Already a customer of the business: refused, by the query before or by  *)
(* the unique index.                                                       *)
LinkPerson(c) ==
    /\ ClerkAt(c, "link")
    /\ LET l == <<clerk[c].shop, clerk[c].person>> IN
       link' = IF link[l] = Absent THEN [link EXCEPT ![l] = [verified |-> FALSE]] ELSE link
    /\ Leaves(c)
    /\ UNCHANGED <<person, account, check, strayed>>

(* The business edits the person behind the link, whoever else knows him.  *)
\* Absent: not sent.
Edited(r, mail, phone) ==
    [mail |-> IF mail = Absent THEN r.mail ELSE mail,
     phone |-> IF phone = Absent THEN r.phone ELSE phone]

\* An empty telephone takes away the one he has.
Erased(r) == [r EXCEPT !.phone = Absent]

UpdateCustomer(s, p, mail, phone) ==
    /\ link[<<s, p>>] # Absent /\ clerks < MaxClerks
    /\ clerks' = clerks + 1
    /\ \E r \in {Edited(person[p], mail, toE164(phone)), Erased(Edited(person[p], mail, Absent))} :
       /\ Unique(p, r)
       /\ person' = [person EXCEPT ![p] = r]
    /\ strayed' = strayed \cup {u \in OfPerson(p) : mail # Absent /\ mail # account[u].mail}
    /\ UNCHANGED <<link, account, clerk, check>>

-----------------------------------------------------------------------------
(* Opening an account.  In the transaction the person is found as above,   *)
(* by the telephone as written; who has an account already is refused.     *)
CheckNewMail(c, u, mail, phone) ==
    /\ account[u] = Absent /\ OfMail(mail) = {}
    /\ Enters(c, [at |-> "open", user |-> u, mail |-> mail, phone |-> phone])
    /\ UNCHANGED <<person, link, account, check, strayed>>

Match(mail, phone) == IF WithMail(mail) # {} THEN WithMail(mail) ELSE WithPhone(phone)

OpenAccount(c, new) ==
    /\ ClerkAt(c, "open") /\ person[new] = Absent
    /\ LET r == clerk[c]
           found == Match(r.mail, r.phone)
       IN \E p \in IF found = {} THEN {new} ELSE found :
            IF OfPerson(p) = {} /\ OfMail(r.mail) = {} /\ account[r.user] = Absent
            THEN /\ account' = [account EXCEPT ![r.user] = [mail |-> r.mail, person |-> p]]
                 /\ person' = IF p = new THEN [person EXCEPT ![p] = [mail |-> r.mail, phone |-> r.phone]]
                              ELSE person
                 /\ strayed' = IF p # new /\ person[p].mail # r.mail THEN strayed \cup {r.user}
                               ELSE strayed
            ELSE UNCHANGED <<account, person, strayed>>
    /\ Leaves(c)
    /\ UNCHANGED <<link, check>>

(* Editing the profile writes account and person in one transaction.       *)
CheckEdit(c, u, mail, phone) ==
    /\ account[u] # Absent
    /\ mail # Absent => OfMail(mail) \subseteq {u}
    /\ Enters(c, [at |-> "edit", user |-> u, mail |-> mail, phone |-> phone])
    /\ UNCHANGED <<person, link, account, check, strayed>>

\* Mutant: the person keeps the old e-mail.
EditedPhone(r, mail, phone) == Edited(r, Absent, phone)

EditedRow(r, mail, phone) == Edited(r, mail, phone)

EditProfile(c) ==
    /\ ClerkAt(c, "edit")
    /\ LET r == clerk[c]
           u == r.user
           p == account[u].person
           row == EditedRow(person[p], r.mail, r.phone)
       IN IF Unique(p, row) /\ (r.mail # Absent => OfMail(r.mail) \subseteq {u})
          THEN /\ person' = [person EXCEPT ![p] = row]
               /\ account' = IF r.mail = Absent THEN account ELSE [account EXCEPT ![u].mail = r.mail]
               /\ strayed' = IF r.mail = Absent THEN strayed ELSE strayed \ {u}
          ELSE UNCHANGED <<person, account, strayed>>
    /\ Leaves(c)
    /\ UNCHANGED <<link, check>>

-----------------------------------------------------------------------------
(* A customer books; the message that has him linked may be lost.          *)
BookOnline(k, u, s) ==
    /\ check[k] = Absent /\ account[u] # Absent
    /\ \E fate \in {"queued", "lost"} :
        check' = [check EXCEPT ![k] = [at |-> fate, shop |-> s, person |-> account[u].person]]
    /\ UNCHANGED <<person, link, account, clerk, clerks, strayed>>

Linked(s, p) == link[<<s, p>>] # Absent

CheckLinked(k) ==
    /\ check[k] # Absent /\ check[k].at = "queued"
    /\ check' = [check EXCEPT ![k].at = IF Linked(check[k].shop, check[k].person) THEN "done" ELSE "link"]
    /\ UNCHANGED <<person, link, account, clerk, clerks, strayed>>

(* Errors are logged and the message is gone; one is no error in effect,   *)
(* that the link has been made meanwhile.                                  *)
LinkCustomer(k) ==
    /\ check[k] # Absent /\ check[k].at = "link"
    /\ LET l == <<check[k].shop, check[k].person>> IN
       \/ /\ link' = IF link[l] = Absent THEN [link EXCEPT ![l] = [verified |-> TRUE]] ELSE link
          /\ check' = [check EXCEPT ![k].at = "done"]
       \/ /\ check' = [check EXCEPT ![k].at = "lost"]
          /\ UNCHANGED link
    /\ UNCHANGED <<person, account, clerk, clerks, strayed>>

\* The process dies; the message is delivered again.
Redeliver(k) ==
    /\ check[k] # Absent /\ check[k].at = "link"
    /\ check' = [check EXCEPT ![k].at = "queued"]
    /\ UNCHANGED <<person, link, account, clerk, clerks, strayed>>

PeopleNext ==
    \/ \E c \in Clerks, s \in Shops, m \in Mails \cup {Absent}, t \in Phones : Register(c, s, m, t)
    \/ \E c \in Clerks : FindByPhone(c) \/ LinkPerson(c) \/ EditProfile(c)
    \/ \E c \in Clerks, p \in People : CreatePerson(c, p) \/ OpenAccount(c, p)
    \/ \E s \in Shops, p \in People, m \in Mails \cup {Absent}, t \in Phones : UpdateCustomer(s, p, m, t)
    \/ \E c \in Clerks, u \in Customers, m \in Mails, t \in Phones \ {Absent} : CheckNewMail(c, u, m, t)
    \/ \E c \in Clerks, u \in Customers, m \in Mails \cup {Absent}, t \in Phones : CheckEdit(c, u, m, t)
    \/ \E k \in Checks, u \in Customers, s \in Shops : BookOnline(k, u, s)
    \/ \E k \in Checks : CheckLinked(k) \/ LinkCustomer(k) \/ Redeliver(k)

PeopleSpec == PeopleInit /\ [][PeopleNext]_peopleVars

-----------------------------------------------------------------------------
PeopleTypeOK ==
    /\ person \in [People -> {Absent} \cup PersonRow]
    /\ link \in [Shops \X People -> {Absent} \cup LinkRow]
    /\ account \in [Customers -> {Absent} \cup AccountRow]
    /\ clerk \in [Clerks -> {Absent} \cup ClerkRow]
    /\ check \in [Checks -> {Absent} \cup CheckRow]
    /\ strayed \subseteq Customers

(* Whoever carries the e-mail of an account is the person of that account, *)
(* so a business that registers him by it books him under his own history. *)
(* Not so for an account whose person was found by the telephone, or was   *)
(* given another e-mail by a business, until he edits his own.             *)
MailFindsAccount ==
    \A u \in Customers \ strayed : account[u] # Absent =>
        WithMail(account[u].mail) = {account[u].person}

(* A customer who booked himself is in the business's list once his        *)
(* message is dealt with, and verified if no one had put him there         *)
(* before; only a lost message or a failed write leaves him out.           *)
BookedIsLinked ==
    \A k \in Checks : check[k] # Absent /\ check[k].at = "done" =>
        link[<<check[k].shop, check[k].person>>] # Absent

(* A customer is one person, and a customer of where he booked.            *)
CustomersAreKnown == MailFindsAccount /\ BookedIsLinked
=============================================================================
