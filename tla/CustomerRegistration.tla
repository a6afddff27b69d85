------------------------ MODULE CustomerRegistration ------------------------
(***************************************************************************)
(* POST /v1/customers: CreateCustomer binds an account of a client system  *)
(* to a customer at the gateway, which it finds or creates there.  Nothing *)
(* is locked: between the look-up in the database, the search at the       *)
(* gateway, the creation and the commit other calls move, calls die and    *)
(* answers get lost, and the client tries again.                           *)
(*                                                                         *)
(* A row is written with its binding (bind_provider_customer comes before  *)
(* save), so that a row without one does not occur.  E-mails are right; a  *)
(* document may be mistyped, and is checked by its digits (Documents).     *)
(***************************************************************************)
EXTENDS Documents

CONSTANTS
    Account,       \* (system_customer_id, system)
    documentOf,    \* the CPF or CNPJ of the person whose account it is
    emailOf,       \* and the e-mail; two people may share one
    Typed,         \* what may be typed for the document of an account
    Customer,      \* ids the gateway gives out
    NoCustomer,
    Call,          \* requests
    Gateways       \* DEFAULT_GATEWAY_PROVIDER: subset of {"asaas", "mercadopago"}

ASSUME PeopleAssumption ==
    \A a, b \in Account : documentOf[a] = documentOf[b] => emailOf[a] = emailOf[b]
ASSUME DocumentAssumption ==
    /\ documentOf \in [Account -> Seq(0 .. 9)]
    /\ \A a \in Account : \A d \in Typed[a] : d \in Seq(0 .. 9)
ASSUME CustomerAssumption == NoCustomer \notin Customer
ASSUME GatewaysAssumption == Gateways \subseteq {"asaas", "mercadopago"}

VARIABLES
    gateway,
    registered,    \* what each customer was registered with at the gateway
    deleted,       \* customers that were deleted there
    bound,         \* customers: provider_customer_id of each account, if it has a row
    pc, account,   \* how far each call got, and for which account
    document,      \* the document the call carries
    got,           \* the id the gateway gave it, and then its answer
    overlapped     \* history: documents two calls were about to register at once

vars == <<gateway, registered, deleted, bound, pc, account, document, got, overlapped>>

Nobody == [document |-> <<>>, email |-> "none"]
Email == {"none"} \cup {emailOf[a] : a \in Account}
Known == {cus \in Customer : registered[cus] # Nobody}
Label == {"idle", "lookup", "search", "create", "save", "again", "answered", "not_found",
          "refused", "dead"}

TypeOK ==
    /\ gateway \in Gateways
    /\ registered \in [Customer -> [document : Seq(0 .. 9), email : Email]]
    /\ deleted \subseteq Customer
    /\ bound \in [Account -> Customer \cup {NoCustomer}]
    /\ pc \in [Call -> Label]
    /\ account \in [Call -> Account]
    /\ document \in [Call -> Seq(0 .. 9)]
    /\ got \in [Call -> Customer \cup {NoCustomer}]

Init ==
    /\ gateway \in Gateways
    /\ registered = [cus \in Customer |-> Nobody]
    /\ deleted = {}
    /\ bound = [a \in Account |-> NoCustomer]
    /\ pc = [c \in Call |-> "idle"]
    /\ account \in [Call -> Account]
    /\ document = [c \in Call |-> documentOf[account[c]]]
    /\ got = [c \in Call |-> NoCustomer]
    /\ overlapped = {}

Goto(c, label) == pc' = [pc EXCEPT ![c] = label]
Gets(c, cus) == got' = [got EXCEPT ![c] = cus]

\* What passes the check, and the accounts for which something may not.
Accepted == [a \in Account |-> {d \in Typed[a] : IsDocument(d)}]
Refusable == {a \in Account : Typed[a] # Accepted[a]}

\* CPF(...) or CNPJ(...) come first; a document that is none is an error of the request.
Begin(c) ==
    /\ pc[c] = "idle"
    /\ \/ /\ \E d \in Accepted[account[c]] : document' = [document EXCEPT ![c] = d]
          /\ Goto(c, "lookup")
       \/ /\ account[c] \in Refusable
          /\ Goto(c, "refused") /\ UNCHANGED document
    /\ UNCHANGED <<gateway, registered, deleted, bound, account, got, overlapped>>

\* get_by_system_id_and_system: an account that is bound is answered at once.
Lookup(c) ==
    /\ pc[c] = "lookup"
    /\ IF bound[account[c]] = NoCustomer
         THEN Goto(c, "search") /\ UNCHANGED got
         ELSE Goto(c, "answered") /\ Gets(c, bound[account[c]])
    /\ UNCHANGED <<gateway, registered, deleted, bound, account, document, overlapped>>

\* Mutant: any customer of the gateway will do.
MatchesAny(c) == Known \ deleted

\* Asaas looks for the document and leaves out what was deleted, Mercado Pago looks
\* for the e-mail.
Matches(c) == {cus \in Known \ deleted :
    IF gateway = "asaas" THEN registered[cus].document = document[c]
    ELSE registered[cus].email = emailOf[account[c]]}

\* Another call is about to register the document.
Overlaps(c) ==
    overlapped' = IF \E d \in Call : pc[d] = "create" /\ document[d] = document[c]
                  THEN overlapped \cup {document[c]} ELSE overlapped

Register(c, cus) ==
    /\ cus \notin Known
    /\ registered' = [registered EXCEPT ![cus] =
                         [document |-> document[c], email |-> emailOf[account[c]]]]

\* Mutant: what is there is not looked for.
SearchNothing(c) ==
    /\ pc[c] = "search"
    /\ Goto(c, "create") /\ UNCHANGED got
    /\ Overlaps(c)
    /\ UNCHANGED <<gateway, registered, deleted, bound, account, document>>

Search(c) ==
    /\ pc[c] = "search"
    /\ \/ /\ \E cus \in Matches(c) : Gets(c, cus)
          /\ Goto(c, "save")
          /\ UNCHANGED overlapped
       \/ /\ Matches(c) = {}
          /\ Goto(c, "create") /\ UNCHANGED got
          /\ Overlaps(c)
    /\ UNCHANGED <<gateway, registered, deleted, bound, account, document>>

\* The answer may be lost.
Create(c) ==
    /\ pc[c] = "create"
    /\ \E cus \in Customer :
         /\ Register(c, cus)
         /\ \/ Goto(c, "save") /\ Gets(c, cus)
            \/ Goto(c, "dead") /\ UNCHANGED got
    /\ UNCHANGED <<gateway, deleted, bound, account, document, overlapped>>

\* INSERT and commit, against uq_customers_system_ref and uq_customers_provider_ref.
Save(c) ==
    /\ pc[c] = "save"
    /\ IF bound[account[c]] # NoCustomer \/ \E a \in Account : bound[a] = got[c]
         THEN Goto(c, "again") /\ UNCHANGED bound
         ELSE Goto(c, "answered") /\ bound' = [bound EXCEPT ![account[c]] = got[c]]
    /\ UNCHANGED <<gateway, registered, deleted, account, document, got, overlapped>>

\* After the IntegrityError and the rollback: NotFoundError where the account has no row.
LookAgain(c) ==
    /\ pc[c] = "again"
    /\ IF bound[account[c]] = NoCustomer
         THEN Goto(c, "not_found") /\ UNCHANGED got
         ELSE Goto(c, "answered") /\ Gets(c, bound[account[c]])
    /\ UNCHANGED <<gateway, registered, deleted, bound, account, document, overlapped>>

\* An error of the gateway or of the database, or the process dies.
Dies(c) ==
    /\ pc[c] \in {"lookup", "search", "create", "save", "again"}
    /\ Goto(c, "dead")
    /\ UNCHANGED <<gateway, registered, deleted, bound, account, document, got, overlapped>>

\* Somebody deletes a customer at the gateway.
Delete(cus) ==
    /\ gateway = "asaas"
    /\ cus \in Known \ deleted
    /\ deleted' = deleted \cup {cus}
    /\ UNCHANGED <<gateway, registered, bound, pc, account, document, got, overlapped>>

Step(c) ==
    \/ Begin(c) \/ Lookup(c) \/ Search(c) \/ Create(c) \/ Save(c) \/ LookAgain(c) \/ Dies(c)
Next == (\E c \in Call : Step(c)) \/ \E cus \in Customer : Delete(cus)

Spec == Init /\ [][Next]_vars

(******************************** Properties *******************************)

\* All calls for an account are answered alike, with the customer that the account
\* is bound to, whoever of them won (test_create_customer_concurrent_conflict_handling).
AnswerIsBound == \A c \in Call : pc[c] = "answered" => got[c] = bound[account[c]]

\* Nobody is given the customer of another person: it was registered with a document
\* that a call for the same account carried; but for Mercado Pago, where one e-mail is one
\* customer.
AnswerIsOfThePerson == \A c \in Call : pc[c] = "answered" =>
    \/ \E d \in Call : account[d] = account[c] /\ registered[got[c]].document = document[d]
    \/ gateway = "mercadopago" /\ registered[got[c]].email = emailOf[account[c]]

\* "sem duplicar o cadastro" (docs/API.md:37): a person has two customers at the gateway
\* only if two calls had looked for one at the same time; a death, a lost answer and
\* the tries that follow them make none.
OneCustomer == \A k, l \in Known \ deleted :
    /\ registered[k].document = registered[l].document
    /\ registered[k].document \notin overlapped
    => k = l

\* One wrong digit, two swapped digits or a missing one get past the check digits only
\* where a check digit is 0, which stands for two remainders: in a document that ends in
\* 00, typed or meant, or in a CPF whose first digit is the wrong one.
OnlyZerosSlip == \A c \in Call : pc[c] \notin {"idle", "refused"} =>
    \/ document[c] = documentOf[account[c]]
    \/ SlipsThrough(document[c], documentOf[account[c]])

\* A call that is refused met a customer that another account is bound to.
RefusedForAnAccount == \A c \in Call : pc[c] = "not_found" =>
    \E a \in Account \ {account[c]} : bound[a] = got[c]

\* What a call is told is so: of the answers and of the refusals.
ToldTheTruth == TypeOK /\ AnswerIsBound /\ AnswerIsOfThePerson /\ RefusedForAnAccount

\* What these rest on: past its check a call has a document that was accepted for its
\* account; ids that calls hold, and ids that accounts are bound to, are of customers
\* registered with such a document, or found by the e-mail; and a call that is about to
\* register a document is the only one, and the document is not registered.
Checked(c) == pc[c] \notin {"idle", "refused"}
Submitted == \A c \in Call : Checked(c) => document[c] \in Accepted[account[c]]
CustomersOf == [a \in Account |-> {cus \in Known :
    \/ \E d \in Call : account[d] = a /\ Checked(d) /\ registered[cus].document = document[d]
    \/ gateway = "mercadopago" /\ registered[cus].email = emailOf[a]}]
GotIsOfThePerson == \A c \in Call :
    pc[c] \in {"save", "again", "answered", "not_found"} => got[c] \in CustomersOf[account[c]]
BoundIsOfThePerson == \A a \in Account :
    bound[a] # NoCustomer => bound[a] \in CustomersOf[a]
Conflicts == \A c \in Call :
    /\ pc[c] = "again" /\ bound[account[c]] = NoCustomer => \E a \in Account : bound[a] = got[c]
    /\ pc[c] = "answered" => bound[account[c]] # NoCustomer
RegisteredForAnAccount == \A cus \in Known : \E a \in Account :
    registered[cus].document \in Accepted[a] /\ registered[cus].email = emailOf[a]
AboutToRegister(c) == pc[c] = "create" /\ document[c] \notin overlapped
CreatesWhatIsMissing == \A c \in Call : AboutToRegister(c) =>
    /\ \A cus \in Known \ deleted : registered[cus].document # document[c]
    /\ \A d \in Call : pc[d] = "create" /\ document[d] = document[c] => d = c
=============================================================================
