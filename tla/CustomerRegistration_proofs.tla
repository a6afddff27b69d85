--------------------- MODULE CustomerRegistration_proofs ---------------------
(***************************************************************************)
(* What calls to register a customer are told, and how many customers of   *)
(* one person they make, for any number of accounts, calls and customers,  *)
(* and whatever documents are typed; which slips in typing a document get  *)
(* past its two check digits.                                              *)
(***************************************************************************)
EXTENDS CustomerRegistration, SequenceTheorems, TLAPS

USE DEF Label, Email, Nobody, Goto, Gets

(*********************************** Types *********************************)

\* A document that is accepted was typed, and is not empty.
LEMMA AcceptedDocuments ==
    ASSUME NEW a \in Account, NEW d \in Accepted[a]
    PROVE  d \in Seq(0 .. 9) /\ d # <<>>
<1>1. d \in Typed[a] /\ IsDocument(d)
  BY DEF Accepted
<1>2. d \in Seq(0 .. 9)
  BY <1>1, DocumentAssumption
<1>3. Len(d) = 11 \/ Len(d) = 14
  BY <1>1 DEF IsDocument, IsCPF, IsCNPJ
<1>4. Len(d) # 0
  <2>1. \A n : n = 11 \/ n = 14 => n # 0
    OBVIOUS
  <2> QED
    BY <1>3, <2>1, Zenon
<1>5. Len(<<>>) = 0
  OBVIOUS
<1> QED
  BY <1>2, <1>4, <1>5, Zenon

LEMMA TypesHold == Spec => [](TypeOK /\ Submitted)
<1>1. Init => TypeOK /\ Submitted
  <2> SUFFICES ASSUME Init PROVE TypeOK /\ Submitted
    OBVIOUS
  <2>1. documentOf \in [Account -> Seq(0 .. 9)] /\ <<>> \in Seq(0 .. 9)
    BY DocumentAssumption
  <2> QED
    BY <2>1 DEF Init, TypeOK, Submitted, Checked
<1>2. TypeOK /\ Submitted /\ [Next]_vars => (TypeOK /\ Submitted)'
  <2> SUFFICES ASSUME TypeOK, Submitted, [Next]_vars
               PROVE  TypeOK' /\ Submitted'
    OBVIOUS
  <2>1. ASSUME NEW c \in Call, Begin(c) PROVE TypeOK' /\ Submitted'
    <3>1. account[c] \in Account /\ UNCHANGED <<gateway, registered, deleted, bound, account, got>>
      BY <2>1 DEF TypeOK, Begin
    <3>2. CASE pc' = [pc EXCEPT ![c] = "refused"] /\ UNCHANGED document
      BY <3>1, <3>2 DEF TypeOK, Submitted, Checked
    <3>3. ASSUME NEW d \in Accepted[account[c]], document' = [document EXCEPT ![c] = d],
                 pc' = [pc EXCEPT ![c] = "lookup"]
          PROVE  TypeOK' /\ Submitted'
      <4>1. d \in Seq(0 .. 9)
        BY <3>1, AcceptedDocuments
      <4>2. TypeOK'
        BY <3>1, <3>3, <4>1 DEF TypeOK
      <4>3. Submitted'
        BY <3>1, <3>3 DEF TypeOK, Submitted, Checked
      <4> QED
        BY <4>2, <4>3
    <3> QED
      BY <2>1, <3>2, <3>3 DEF Begin
  <2>2. ASSUME NEW c \in Call, Lookup(c) PROVE TypeOK' /\ Submitted'
    BY <2>2 DEF TypeOK, Submitted, Checked, Lookup
  <2>3. ASSUME NEW c \in Call, Search(c) PROVE TypeOK' /\ Submitted'
    <3>1. UNCHANGED <<gateway, registered, deleted, bound, account, document>>
      BY <2>3 DEF Search
    <3>2. CASE pc' = [pc EXCEPT ![c] = "create"] /\ UNCHANGED got
      BY <2>3, <3>1, <3>2 DEF TypeOK, Submitted, Checked, Search
    <3>3. ASSUME NEW cus \in Matches(c), got' = [got EXCEPT ![c] = cus],
                 pc' = [pc EXCEPT ![c] = "save"]
          PROVE  TypeOK' /\ Submitted'
      <4>1. cus \in Customer
        BY DEF Matches, Known
      <4> QED
        BY <2>3, <3>1, <3>3, <4>1 DEF TypeOK, Submitted, Checked, Search
    <3> QED
      BY <2>3, <3>2, <3>3 DEF Search
  <2>4. ASSUME NEW c \in Call, Create(c) PROVE TypeOK' /\ Submitted'
    <3>1. PICK cus \in Customer :
            /\ Register(c, cus)
            /\ \/ pc' = [pc EXCEPT ![c] = "save"] /\ got' = [got EXCEPT ![c] = cus]
               \/ pc' = [pc EXCEPT ![c] = "dead"] /\ UNCHANGED got
      BY <2>4 DEF Create
    <3>2. pc[c] = "create" /\ UNCHANGED <<gateway, deleted, bound, account, document>>
      BY <2>4 DEF Create
    <3>3. registered' \in [Customer -> [document : Seq(0 .. 9), email : Email]]
      BY <3>1 DEF TypeOK, Register
    <3> QED
      BY <3>1, <3>2, <3>3 DEF TypeOK, Submitted, Checked
  <2>5. ASSUME NEW c \in Call, Save(c) PROVE TypeOK' /\ Submitted'
    BY <2>5 DEF TypeOK, Submitted, Checked, Save
  <2>6. ASSUME NEW c \in Call, LookAgain(c) PROVE TypeOK' /\ Submitted'
    BY <2>6 DEF TypeOK, Submitted, Checked, LookAgain
  <2>7. ASSUME NEW c \in Call, Dies(c) PROVE TypeOK' /\ Submitted'
    BY <2>7 DEF TypeOK, Submitted, Checked, Dies
  <2>8. ASSUME NEW cus \in Customer, Delete(cus) PROVE TypeOK' /\ Submitted'
    BY <2>8 DEF TypeOK, Submitted, Checked, Delete
  <2>9. CASE UNCHANGED vars
    BY <2>9 DEF TypeOK, Submitted, Checked, vars
  <2> QED
    BY <2>1, <2>2, <2>3, <2>4, <2>5, <2>6, <2>7, <2>8, <2>9 DEF Next, Step
<1> QED
  BY <1>1, <1>2, PTL DEF Spec

(****************************** What calls are told ************************)

\* What is known, submitted or bound stays so.
LEMMA StepsKeep ==
    ASSUME TypeOK, Submitted, [Next]_vars
    PROVE  /\ gateway' = gateway /\ account' = account
           /\ \A cus \in Known : cus \in Known' /\ registered'[cus] = registered[cus]
           /\ \A d \in Call : Checked(d) => Checked(d)' /\ document'[d] = document[d]
           /\ \A a \in Account : bound[a] # NoCustomer => bound'[a] = bound[a]
<1> DEFINE Kept == /\ gateway' = gateway /\ account' = account
                   /\ \A cus \in Known : cus \in Known' /\ registered'[cus] = registered[cus]
                   /\ \A d \in Call : Checked(d) => Checked(d)' /\ document'[d] = document[d]
                   /\ \A a \in Account : bound[a] # NoCustomer => bound'[a] = bound[a]
<1> USE DEF Known, Checked
<1>1. ASSUME NEW c \in Call, Begin(c) PROVE Kept
  BY <1>1 DEF TypeOK, Begin
<1>2. ASSUME NEW c \in Call, Lookup(c) PROVE Kept
  BY <1>2 DEF TypeOK, Lookup
<1>3. ASSUME NEW c \in Call, Search(c) PROVE Kept
  BY <1>3 DEF TypeOK, Search
<1>4. ASSUME NEW c \in Call, Create(c) PROVE Kept
  BY <1>4 DEF TypeOK, Create, Register
<1>5. ASSUME NEW c \in Call, Save(c) PROVE Kept
  BY <1>5 DEF TypeOK, Save
<1>6. ASSUME NEW c \in Call, LookAgain(c) PROVE Kept
  BY <1>6 DEF TypeOK, LookAgain
<1>7. ASSUME NEW c \in Call, Dies(c) PROVE Kept
  BY <1>7 DEF TypeOK, Dies
<1>8. ASSUME NEW cus \in Customer, Delete(cus) PROVE Kept
  BY <1>8 DEF TypeOK, Delete
<1>9. CASE UNCHANGED vars
  BY <1>9 DEF vars
<1> QED
  BY <1>1, <1>2, <1>3, <1>4, <1>5, <1>6, <1>7, <1>8, <1>9 DEF Next, Step

LEMMA PersonsStay ==
    ASSUME TypeOK, Submitted, [Next]_vars, NEW a \in Account
    PROVE  CustomersOf[a] \subseteq CustomersOf'[a] /\ CustomersOf'[a] \subseteq Customer
<1>1. Known \subseteq Customer /\ Known' \subseteq Customer
  BY DEF Known
<1> QED
  BY <1>1, StepsKeep DEF CustomersOf

Given == GotIsOfThePerson /\ BoundIsOfThePerson
Told == Given /\ Conflicts /\ AnswerIsBound /\ RefusedForAnAccount

\* Whatever a call is given, and an account is bound to, is of the person.
LEMMA GivenKept ==
    ASSUME TypeOK, Submitted, Given, [Next]_vars
    PROVE  Given'
<1> USE CustomerAssumption DEF Given, GotIsOfThePerson, BoundIsOfThePerson
<1>1. \A a \in Account : CustomersOf[a] \subseteq CustomersOf'[a]
  BY PersonsStay
<1>2. /\ account' = account /\ account \in [Call -> Account]
      /\ pc \in [Call -> Label] /\ got \in [Call -> Customer \cup {NoCustomer}]
      /\ bound \in [Account -> Customer \cup {NoCustomer}]
  BY StepsKeep DEF TypeOK
<1>3. ASSUME NEW c \in Call, Begin(c) PROVE Given'
  BY <1>1, <1>2, <1>3 DEF Begin
<1>4. ASSUME NEW c \in Call, Lookup(c) PROVE Given'
  BY <1>1, <1>2, <1>4 DEF Lookup
<1>5. ASSUME NEW c \in Call, Search(c) PROVE Given'
  <2>1. \A cus \in Matches(c) : cus \in CustomersOf[account[c]]
    BY <1>5, GatewaysAssumption DEF Matches, Known, CustomersOf, Checked, Search, TypeOK
  <2>2. CASE pc' = [pc EXCEPT ![c] = "create"] /\ UNCHANGED got
    BY <1>1, <1>2, <1>5, <2>2 DEF Search
  <2>3. ASSUME NEW cus \in Matches(c), got' = [got EXCEPT ![c] = cus],
               pc' = [pc EXCEPT ![c] = "save"]
        PROVE  Given'
    BY <1>1, <1>2, <1>5, <2>1, <2>3 DEF Search
  <2> QED
    BY <1>5, <2>2, <2>3 DEF Search
<1>6. ASSUME NEW c \in Call, Create(c) PROVE Given'
  <2>1. document[c] # <<>>
    BY <1>2, <1>6, AcceptedDocuments DEF Submitted, Checked, Create
  <2>2. PICK cus \in Customer :
          /\ Register(c, cus)
          /\ \/ pc' = [pc EXCEPT ![c] = "save"] /\ got' = [got EXCEPT ![c] = cus]
             \/ pc' = [pc EXCEPT ![c] = "dead"] /\ UNCHANGED got
    BY <1>6 DEF Create
  <2>3. pc[c] = "create" /\ UNCHANGED <<gateway, bound, document>>
    BY <1>6 DEF Create
  <2>4. cus \in CustomersOf'[account[c]]
    <3>1. Checked(c)'
      BY <1>2, <2>2, <2>3 DEF Checked
    <3>2. registered'[cus] = [document |-> document[c], email |-> emailOf[account[c]]]
      BY <2>2 DEF Register, TypeOK
    <3>3. cus \in Known' /\ registered'[cus].document = document'[c]
      BY <2>1, <2>3, <3>2 DEF Known
    <3> QED
      BY <1>2, <3>1, <3>3 DEF CustomersOf
  <2> QED
    BY <1>1, <1>2, <2>2, <2>3, <2>4
<1>7. ASSUME NEW c \in Call, Save(c) PROVE Given'
  BY <1>1, <1>2, <1>7 DEF Save
<1>8. ASSUME NEW c \in Call, LookAgain(c) PROVE Given'
  BY <1>1, <1>2, <1>8 DEF LookAgain
<1>9. ASSUME NEW c \in Call, Dies(c) PROVE Given'
  BY <1>1, <1>2, <1>9 DEF Dies
<1>10. CASE UNCHANGED <<bound, pc, account, got>>
  BY <1>1, <1>2, <1>10
<1> QED
  BY <1>3, <1>4, <1>5, <1>6, <1>7, <1>8, <1>9, <1>10 DEF Next, Step, Delete, vars

\* Answers are bindings, and a conflict is with one.
LEMMA ToldKept ==
    ASSUME TypeOK, Submitted, Told, [Next]_vars
    PROVE  Told'
<1> USE CustomerAssumption DEF Conflicts, AnswerIsBound, RefusedForAnAccount
<1>0. Conflicts /\ AnswerIsBound /\ RefusedForAnAccount
  BY DEF Told
<1>1. \A c \in Call : pc[c] \in {"save", "again", "answered", "not_found"} =>
         got[c] \in Customer
  <2>1. \A a \in Account : CustomersOf[a] \subseteq Customer
    BY DEF CustomersOf, Known
  <2> QED
    BY <2>1 DEF Told, Given, GotIsOfThePerson, TypeOK
<1>2. /\ account' = account /\ account \in [Call -> Account]
      /\ pc \in [Call -> Label] /\ got \in [Call -> Customer \cup {NoCustomer}]
      /\ bound \in [Account -> Customer \cup {NoCustomer}]
      /\ \A a \in Account : bound[a] # NoCustomer => bound'[a] = bound[a]
  BY StepsKeep DEF TypeOK
<1> DEFINE New == (Conflicts /\ AnswerIsBound /\ RefusedForAnAccount)'
<1>3. ASSUME NEW c \in Call, Begin(c) PROVE New
  BY <1>0, <1>1, <1>2, <1>3 DEF Begin
<1>4. ASSUME NEW c \in Call, Lookup(c) PROVE New
  BY <1>0, <1>1, <1>2, <1>4 DEF Lookup
<1>5. ASSUME NEW c \in Call, Search(c) PROVE New
  BY <1>0, <1>1, <1>2, <1>5 DEF Search
<1>6. ASSUME NEW c \in Call, Create(c) PROVE New
  BY <1>0, <1>1, <1>2, <1>6 DEF Create
<1>7. ASSUME NEW c \in Call, Save(c) PROVE New
  BY <1>0, <1>1, <1>2, <1>7 DEF Save
<1>8. ASSUME NEW c \in Call, LookAgain(c) PROVE New
  BY <1>0, <1>1, <1>2, <1>8 DEF LookAgain
<1>9. ASSUME NEW c \in Call, Dies(c) PROVE New
  BY <1>0, <1>1, <1>2, <1>9 DEF Dies
<1>10. ASSUME UNCHANGED <<bound, pc, account, got>> PROVE New
  BY <1>0, <1>10
<1>11. New
  BY <1>3, <1>4, <1>5, <1>6, <1>7, <1>8, <1>9, <1>10 DEF Next, Step, Delete, vars
<1> QED
  BY <1>11, GivenKept DEF Told

\* What a call is told is so, whatever calls for the same account or the same person
\* move, die or are tried again between its look-up and its commit.
THEOREM CallsAreToldTheTruth == Spec => []ToldTheTruth
<1>1. Init => Told
  BY DEF Init, Told, Given, GotIsOfThePerson, BoundIsOfThePerson, Conflicts,
         AnswerIsBound, RefusedForAnAccount
<1>2. (TypeOK /\ Submitted) /\ Told /\ [Next]_vars => Told'
  BY ToldKept
<1>3. TypeOK /\ Told => ToldTheTruth
  <2> SUFFICES ASSUME TypeOK, Told PROVE AnswerIsOfThePerson
    BY DEF Told, ToldTheTruth
  <2>1. ASSUME NEW c \in Call, pc[c] = "answered"
        PROVE  got[c] \in CustomersOf[account[c]] /\ account[c] \in Account
    BY <2>1 DEF Told, Given, GotIsOfThePerson, TypeOK
  <2> QED
    BY <2>1 DEF AnswerIsOfThePerson, CustomersOf
<1> QED
  BY <1>1, <1>2, <1>3, TypesHold, PTL DEF Spec

(***************************** One customer each ***************************)

\* Mercado Pago is asked for the e-mail: one document is then not typed for two people.
SharedDocuments == "mercadopago" \in Gateways =>
    \A a, b \in Account : Accepted[a] \cap Accepted[b] # {} => emailOf[a] = emailOf[b]

Single == RegisteredForAnAccount /\ CreatesWhatIsMissing /\ OneCustomer

\* A call that found nothing is about to register what nobody has registered.
LEMMA SearchKeepsSingle ==
    ASSUME SharedDocuments, TypeOK, Submitted, Single, NEW c \in Call, Search(c)
    PROVE  Single'
<1>1. /\ UNCHANGED <<gateway, registered, deleted, bound, account, document>>
      /\ pc[c] = "search" /\ pc \in [Call -> Label]
      /\ overlapped \subseteq overlapped'
  BY DEF Search, Overlaps, TypeOK
<1>2. RegisteredForAnAccount'
  BY <1>1 DEF Single, RegisteredForAnAccount, Known
<1>3. OneCustomer'
  BY <1>1 DEF Single, OneCustomer, Known
<1>4. CASE pc' = [pc EXCEPT ![c] = "save"]
  <2>1. CreatesWhatIsMissing'
    BY <1>1, <1>4 DEF Single, CreatesWhatIsMissing, AboutToRegister, Known
  <2> QED
    BY <1>2, <1>3, <2>1 DEF Single
<1>5. CASE Matches(c) = {} /\ pc' = [pc EXCEPT ![c] = "create"] /\ Overlaps(c)
  <2>1. \A cus \in Known \ deleted : registered[cus].document # document[c]
    <3> SUFFICES ASSUME NEW cus \in Known \ deleted, registered[cus].document = document[c]
                 PROVE  FALSE
      OBVIOUS
    <3>1. CASE gateway = "asaas"
      BY <1>5, <3>1 DEF Matches
    <3>2. CASE gateway # "asaas"
      <4>1. PICK a \in Account : document[c] \in Accepted[a] /\ registered[cus].email = emailOf[a]
        BY DEF Single, RegisteredForAnAccount
      <4>2. document[c] \in Accepted[account[c]] /\ account[c] \in Account
        BY <1>1 DEF Submitted, Checked, TypeOK
      <4>3. "mercadopago" \in Gateways
        BY <3>2, GatewaysAssumption DEF TypeOK
      <4>4. emailOf[a] = emailOf[account[c]]
        BY <4>1, <4>2, <4>3 DEF SharedDocuments
      <4> QED
        BY <1>5, <3>2, <4>1, <4>4 DEF Matches
    <3> QED
      BY <3>1, <3>2
  <2>2. ASSUME NEW d \in Call, pc[d] = "create", document[d] = document[c]
        PROVE  document[c] \in overlapped'
    BY <1>5, <2>2 DEF Overlaps
  <2>3. ASSUME NEW d \in Call, AboutToRegister(d)'
        PROVE  /\ \A cus \in (Known \ deleted)' : registered'[cus].document # document'[d]
               /\ \A e \in Call : pc'[e] = "create" /\ document'[e] = document'[d] => e = d
    <3>1. CASE d = c
      BY <1>1, <1>5, <2>1, <2>2, <2>3, <3>1 DEF AboutToRegister, Known
    <3>2. CASE d # c
      <4>1. AboutToRegister(d) /\ pc[d] = "create"
        BY <1>1, <1>5, <2>3, <3>2 DEF AboutToRegister
      <4>2. document[d] # document[c]
        BY <1>1, <2>2, <2>3, <4>1 DEF AboutToRegister
      <4>3. /\ \A cus \in Known \ deleted : registered[cus].document # document[d]
            /\ \A e \in Call : pc[e] = "create" /\ document[e] = document[d] => e = d
        BY <4>1 DEF Single, CreatesWhatIsMissing
      <4> QED
        BY <1>1, <1>5, <4>2, <4>3 DEF Known
    <3> QED
      BY <3>1, <3>2
  <2>4. CreatesWhatIsMissing'
    BY <2>3 DEF CreatesWhatIsMissing
  <2> QED
    BY <1>2, <1>3, <2>4 DEF Single
<1> QED
  BY <1>4, <1>5 DEF Search

\* And registers it once.
LEMMA CreateKeepsSingle ==
    ASSUME TypeOK, Submitted, Single, NEW c \in Call, Create(c)
    PROVE  Single'
<1>1. PICK new \in Customer :
        /\ Register(c, new)
        /\ pc' = [pc EXCEPT ![c] = "save"] \/ pc' = [pc EXCEPT ![c] = "dead"]
  BY DEF Create
<1>2. /\ pc[c] = "create" /\ pc \in [Call -> Label]
      /\ UNCHANGED <<gateway, deleted, bound, account, document, overlapped>>
  BY DEF Create, TypeOK
<1>3. /\ registered'[new] = [document |-> document[c], email |-> emailOf[account[c]]]
      /\ \A cus \in Customer \ {new} : registered'[cus] = registered[cus]
  BY <1>1 DEF Register, TypeOK
<1>4. Known' \subseteq Known \cup {new} /\ Known \subseteq Customer
  BY <1>3 DEF Known
<1>5. document[c] \in Accepted[account[c]] /\ account[c] \in Account
  BY <1>2 DEF Submitted, Checked, TypeOK
<1>6. RegisteredForAnAccount'
  BY <1>3, <1>4, <1>5 DEF Single, RegisteredForAnAccount
<1>7. document[c] \notin overlapped =>
        /\ \A cus \in Known \ deleted : registered[cus].document # document[c]
        /\ \A d \in Call : pc[d] = "create" /\ document[d] = document[c] => d = c
  BY <1>2 DEF Single, CreatesWhatIsMissing, AboutToRegister
<1>8. OneCustomer'
  BY <1>2, <1>3, <1>4, <1>7 DEF Single, OneCustomer
<1>9. ASSUME NEW d \in Call, AboutToRegister(d)'
      PROVE  /\ \A cus \in (Known \ deleted)' : registered'[cus].document # document'[d]
             /\ \A e \in Call : pc'[e] = "create" /\ document'[e] = document'[d] => e = d
  <2>1. d # c /\ AboutToRegister(d) /\ pc[d] = "create"
    BY <1>1, <1>2, <1>9 DEF AboutToRegister
  <2>2. /\ \A cus \in Known \ deleted : registered[cus].document # document[d]
        /\ \A e \in Call : pc[e] = "create" /\ document[e] = document[d] => e = d
    BY <2>1 DEF Single, CreatesWhatIsMissing
  <2>3. document[c] # document[d]
    BY <1>2, <2>1, <2>2
  <2>4. \A cus \in (Known \ deleted)' : registered'[cus].document # document'[d]
    BY <1>2, <1>3, <1>4, <2>2, <2>3
  <2>5. \A e \in Call : pc'[e] = "create" => pc[e] = "create"
    BY <1>1, <1>2
  <2> QED
    BY <1>2, <2>2, <2>4, <2>5
<1>10. CreatesWhatIsMissing'
  BY <1>9 DEF CreatesWhatIsMissing
<1> QED
  BY <1>6, <1>8, <1>10 DEF Single

\* A person has two customers at the gateway only if two calls had looked for one at
\* the same time: no death, lost answer or try again registers a second.
THEOREM OnePersonOneCustomer == ASSUME SharedDocuments PROVE Spec => []OneCustomer
<1>1. Init => Single
  BY DEF Init, Single, RegisteredForAnAccount, CreatesWhatIsMissing, AboutToRegister,
         OneCustomer, Known
<1>2. (TypeOK /\ Submitted) /\ Single /\ [Next]_vars => Single'
  <2> SUFFICES ASSUME TypeOK, Submitted, Single, [Next]_vars PROVE Single'
    OBVIOUS
  <2> USE DEF Single, RegisteredForAnAccount, CreatesWhatIsMissing, AboutToRegister,
              OneCustomer, Known
  <2>1. ASSUME NEW c \in Call, Begin(c) PROVE Single'
    <3>1. /\ UNCHANGED <<registered, deleted, overlapped>>
          /\ pc'[c] # "create"
          /\ \A d \in Call \ {c} : pc'[d] = pc[d] /\ document'[d] = document[d]
      BY <2>1 DEF Begin, TypeOK
    <3> QED
      BY <3>1
  <2>2. ASSUME NEW c \in Call, Lookup(c) PROVE Single'
    <3>1. /\ UNCHANGED <<registered, deleted, overlapped, document>>
          /\ pc'[c] # "create"
          /\ \A d \in Call \ {c} : pc'[d] = pc[d]
      BY <2>2 DEF Lookup, TypeOK, Goto
    <3> QED
      BY <3>1
  <2>3. ASSUME NEW c \in Call, Save(c) PROVE Single'
    <3>1. /\ UNCHANGED <<registered, deleted, overlapped, document>>
          /\ pc'[c] # "create"
          /\ \A d \in Call \ {c} : pc'[d] = pc[d]
      BY <2>3 DEF Save, TypeOK, Goto
    <3> QED
      BY <3>1
  <2>4. ASSUME NEW c \in Call, LookAgain(c) PROVE Single'
    <3>1. /\ UNCHANGED <<registered, deleted, overlapped, document>>
          /\ pc'[c] # "create"
          /\ \A d \in Call \ {c} : pc'[d] = pc[d]
      BY <2>4 DEF LookAgain, TypeOK, Goto
    <3> QED
      BY <3>1
  <2>5. ASSUME NEW c \in Call, Dies(c) PROVE Single'
    <3>1. /\ UNCHANGED <<registered, deleted, overlapped, document>>
          /\ pc'[c] # "create"
          /\ \A d \in Call \ {c} : pc'[d] = pc[d]
      BY <2>5 DEF Dies, TypeOK, Goto
    <3> QED
      BY <3>1
  <2>6. ASSUME NEW cus \in Customer, Delete(cus) PROVE Single'
    BY <2>6 DEF Delete, TypeOK
  <2>7. CASE UNCHANGED vars
    BY <2>7 DEF vars
  <2> QED
    BY <2>1, <2>2, <2>3, <2>4, <2>5, <2>6, <2>7, SearchKeepsSingle, CreateKeepsSingle
       DEF Next, Step
<1>3. Single => OneCustomer
  BY DEF Single
<1> QED
  BY <1>1, <1>2, <1>3, TypesHold, PTL DEF Spec

(******************************** Check digits *****************************)

\* The terms of Weighted, added up.
Total(f) == f[1] + f[2] + f[3] + f[4] + f[5] + f[6] + f[7] + f[8] + f[9] + f[10] + f[11]
            + f[12] + f[13]

\* Natural terms add up to a natural number.
LEMMA TotalIsNumber ==
    ASSUME NEW f \in [1 .. 13 -> Nat]
    PROVE  Total(f) \in Nat
<1>1. /\ f[1] \in Nat /\ f[2] \in Nat /\ f[3] \in Nat /\ f[4] \in Nat
      /\ f[5] \in Nat /\ f[6] \in Nat /\ f[7] \in Nat /\ f[8] \in Nat
      /\ f[9] \in Nat /\ f[10] \in Nat /\ f[11] \in Nat /\ f[12] \in Nat
      /\ f[13] \in Nat
  OBVIOUS
<1> QED
  BY <1>1 DEF Total

\* Two totals differ by what their two neighbours that differ do.
LEMMA TotalsDiffer ==
    ASSUME NEW f \in [1 .. 13 -> Int], NEW g \in [1 .. 13 -> Int], NEW i \in 1 .. 12,
           \A j \in (1 .. 13) \ {i, i + 1} : g[j] = f[j]
    PROVE  Total(g) - Total(f) = g[i] - f[i] + g[i + 1] - f[i + 1]
<1>1. /\ f[1] \in Int /\ f[2] \in Int /\ f[3] \in Int /\ f[4] \in Int
      /\ f[5] \in Int /\ f[6] \in Int /\ f[7] \in Int /\ f[8] \in Int
      /\ f[9] \in Int /\ f[10] \in Int /\ f[11] \in Int /\ f[12] \in Int
      /\ f[13] \in Int
  OBVIOUS
<1>2. /\ g[1] \in Int /\ g[2] \in Int /\ g[3] \in Int /\ g[4] \in Int
      /\ g[5] \in Int /\ g[6] \in Int /\ g[7] \in Int /\ g[8] \in Int
      /\ g[9] \in Int /\ g[10] \in Int /\ g[11] \in Int /\ g[12] \in Int
      /\ g[13] \in Int
  OBVIOUS
<1>3. \A j \in 1 .. 13 : j # i /\ j # i + 1 => g[j] = f[j]
  OBVIOUS
<1>4. CASE i = 1
  <2>1. /\ g[3] = f[3] /\ g[4] = f[4] /\ g[5] = f[5] /\ g[6] = f[6]
        /\ g[7] = f[7] /\ g[8] = f[8] /\ g[9] = f[9] /\ g[10] = f[10]
        /\ g[11] = f[11] /\ g[12] = f[12] /\ g[13] = f[13]
    BY <1>3, <1>4
  <2> QED
    BY <1>1, <1>2, <1>4, <2>1 DEF Total
<1>5. CASE i = 2
  <2>1. /\ g[1] = f[1] /\ g[4] = f[4] /\ g[5] = f[5] /\ g[6] = f[6]
        /\ g[7] = f[7] /\ g[8] = f[8] /\ g[9] = f[9] /\ g[10] = f[10]
        /\ g[11] = f[11] /\ g[12] = f[12] /\ g[13] = f[13]
    BY <1>3, <1>5
  <2> QED
    BY <1>1, <1>2, <1>5, <2>1 DEF Total
<1>6. CASE i = 3
  <2>1. /\ g[1] = f[1] /\ g[2] = f[2] /\ g[5] = f[5] /\ g[6] = f[6]
        /\ g[7] = f[7] /\ g[8] = f[8] /\ g[9] = f[9] /\ g[10] = f[10]
        /\ g[11] = f[11] /\ g[12] = f[12] /\ g[13] = f[13]
    BY <1>3, <1>6
  <2> QED
    BY <1>1, <1>2, <1>6, <2>1 DEF Total
<1>7. CASE i = 4
  <2>1. /\ g[1] = f[1] /\ g[2] = f[2] /\ g[3] = f[3] /\ g[6] = f[6]
        /\ g[7] = f[7] /\ g[8] = f[8] /\ g[9] = f[9] /\ g[10] = f[10]
        /\ g[11] = f[11] /\ g[12] = f[12] /\ g[13] = f[13]
    BY <1>3, <1>7
  <2> QED
    BY <1>1, <1>2, <1>7, <2>1 DEF Total
<1>8. CASE i = 5
  <2>1. /\ g[1] = f[1] /\ g[2] = f[2] /\ g[3] = f[3] /\ g[4] = f[4]
        /\ g[7] = f[7] /\ g[8] = f[8] /\ g[9] = f[9] /\ g[10] = f[10]
        /\ g[11] = f[11] /\ g[12] = f[12] /\ g[13] = f[13]
    BY <1>3, <1>8
  <2> QED
    BY <1>1, <1>2, <1>8, <2>1 DEF Total
<1>9. CASE i = 6
  <2>1. /\ g[1] = f[1] /\ g[2] = f[2] /\ g[3] = f[3] /\ g[4] = f[4]
        /\ g[5] = f[5] /\ g[8] = f[8] /\ g[9] = f[9] /\ g[10] = f[10]
        /\ g[11] = f[11] /\ g[12] = f[12] /\ g[13] = f[13]
    BY <1>3, <1>9
  <2> QED
    BY <1>1, <1>2, <1>9, <2>1 DEF Total
<1>10. CASE i = 7
  <2>1. /\ g[1] = f[1] /\ g[2] = f[2] /\ g[3] = f[3] /\ g[4] = f[4]
        /\ g[5] = f[5] /\ g[6] = f[6] /\ g[9] = f[9] /\ g[10] = f[10]
        /\ g[11] = f[11] /\ g[12] = f[12] /\ g[13] = f[13]
    BY <1>3, <1>10
  <2> QED
    BY <1>1, <1>2, <1>10, <2>1 DEF Total
<1>11. CASE i = 8
  <2>1. /\ g[1] = f[1] /\ g[2] = f[2] /\ g[3] = f[3] /\ g[4] = f[4]
        /\ g[5] = f[5] /\ g[6] = f[6] /\ g[7] = f[7] /\ g[10] = f[10]
        /\ g[11] = f[11] /\ g[12] = f[12] /\ g[13] = f[13]
    BY <1>3, <1>11
  <2> QED
    BY <1>1, <1>2, <1>11, <2>1 DEF Total
<1>12. CASE i = 9
  <2>1. /\ g[1] = f[1] /\ g[2] = f[2] /\ g[3] = f[3] /\ g[4] = f[4]
        /\ g[5] = f[5] /\ g[6] = f[6] /\ g[7] = f[7] /\ g[8] = f[8]
        /\ g[11] = f[11] /\ g[12] = f[12] /\ g[13] = f[13]
    BY <1>3, <1>12
  <2> QED
    BY <1>1, <1>2, <1>12, <2>1 DEF Total
<1>13. CASE i = 10
  <2>1. /\ g[1] = f[1] /\ g[2] = f[2] /\ g[3] = f[3] /\ g[4] = f[4]
        /\ g[5] = f[5] /\ g[6] = f[6] /\ g[7] = f[7] /\ g[8] = f[8]
        /\ g[9] = f[9] /\ g[12] = f[12] /\ g[13] = f[13]
    BY <1>3, <1>13
  <2> QED
    BY <1>1, <1>2, <1>13, <2>1 DEF Total
<1>14. CASE i = 11
  <2>1. /\ g[1] = f[1] /\ g[2] = f[2] /\ g[3] = f[3] /\ g[4] = f[4]
        /\ g[5] = f[5] /\ g[6] = f[6] /\ g[7] = f[7] /\ g[8] = f[8]
        /\ g[9] = f[9] /\ g[10] = f[10] /\ g[13] = f[13]
    BY <1>3, <1>14
  <2> QED
    BY <1>1, <1>2, <1>14, <2>1 DEF Total
<1>15. CASE i = 12
  <2>1. /\ g[1] = f[1] /\ g[2] = f[2] /\ g[3] = f[3] /\ g[4] = f[4]
        /\ g[5] = f[5] /\ g[6] = f[6] /\ g[7] = f[7] /\ g[8] = f[8]
        /\ g[9] = f[9] /\ g[10] = f[10] /\ g[11] = f[11]
    BY <1>3, <1>15
  <2> QED
    BY <1>1, <1>2, <1>15, <2>1 DEF Total
<1> QED
  BY <1>4, <1>5, <1>6, <1>7, <1>8, <1>9, <1>10, <1>11, <1>12, <1>13, <1>14, <1>15

\* A document of eleven or fourteen digits, as its digits at the places weighed.
Terms(digits, weights) ==
    [i \in 1 .. 13 |-> IF i \in DOMAIN weights THEN digits[i] * weights[i] ELSE 0]

\* The weighted sum is the total of its terms.
LEMMA WeightedIsTotal ==
    ASSUME NEW digits, NEW weights
    PROVE  Weighted(digits, weights) = Total(Terms(digits, weights))
BY DEF Weighted, Total, Terms

\* The product of two numbers is one.
LEMMA TimesIsNumber == ASSUME NEW a \in Nat, NEW b \in Nat PROVE a * b \in Nat
OBVIOUS

\* Digits and weights make natural terms and a natural sum.
LEMMA TermsAreNumbers ==
    ASSUME NEW digits \in Seq(0 .. 9), NEW n \in Nat, n <= Len(digits), n <= 13,
           NEW weights \in [1 .. n -> Nat]
    PROVE  /\ Terms(digits, weights) \in [1 .. 13 -> Nat]
           /\ Weighted(digits, weights) \in Nat
<1>1. \A i \in 1 .. n : digits[i] \in 0 .. 9 /\ weights[i] \in Nat
  OBVIOUS
<1>2. ASSUME NEW i \in 1 .. n PROVE digits[i] * weights[i] \in Nat
  <2>1. digits[i] \in 0 .. 9 /\ weights[i] \in Nat
    BY <1>1, Zenon
  <2>2. 0 .. 9 \subseteq Nat
    OBVIOUS
  <2> QED
    BY <2>1, <2>2, TimesIsNumber, Zenon
<1>3. Terms(digits, weights) \in [1 .. 13 -> Nat]
  BY <1>2 DEF Terms
<1> HIDE DEF Terms
<1>4. Total(Terms(digits, weights)) \in Nat
  BY <1>3, TotalIsNumber
<1> QED
  BY <1>3, <1>4, WeightedIsTotal

\* Two digits of one weight.
LEMMA TimesMinus ==
    ASSUME NEW a \in Nat, NEW b \in Nat, NEW w \in Nat
    PROVE  a * w - b * w = (a - b) * w /\ (a - b) * w \in Int
OBVIOUS

\* The changes of two terms add up.
LEMMA AddUp ==
    ASSUME NEW sum \in Nat, NEW other \in Nat, NEW a \in Nat, NEW b \in Nat,
           NEW u \in Nat, NEW v \in Nat, NEW p \in Int, NEW q \in Int,
           other - sum = a - b + u - v, a - b = p, u - v = q
    PROVE  other - sum = p + q
OBVIOUS

\* How the sum changes with two neighbours.
Change(d, e, n, w, i) ==
    (IF i \in 1 .. n THEN (e[i] - d[i]) * w[i] ELSE 0)
    + (IF i + 1 \in 1 .. n THEN (e[i + 1] - d[i + 1]) * w[i + 1] ELSE 0)

\* A sum changes by the change of the two digits that differ, whatever they are.
LEMMA SumsChange ==
    ASSUME NEW d \in Seq(0 .. 9), NEW e \in Seq(0 .. 9), Len(e) = Len(d),
           NEW n \in 1 .. 13, n <= Len(d), NEW w \in [1 .. n -> Nat],
           NEW i \in 1 .. 12,
           \A j \in (1 .. n) \ {i, i + 1} : e[j] = d[j]
    PROVE  /\ Weighted(d, w) \in Nat /\ Weighted(e, w) \in Nat
           /\ Weighted(e, w) - Weighted(d, w) = Change(d, e, n, w, i)
<1> DEFINE f == Terms(d, w)
           g == Terms(e, w)
           Part(j) == IF j \in 1 .. n THEN (e[j] - d[j]) * w[j] ELSE 0
<1>1. n \in Nat /\ n <= 13 /\ n <= Len(e)
  OBVIOUS
<1>2. f \in [1 .. 13 -> Nat] /\ Weighted(d, w) \in Nat
  BY <1>1, TermsAreNumbers
<1>3. g \in [1 .. 13 -> Nat] /\ Weighted(e, w) \in Nat
  BY <1>1, TermsAreNumbers
<1>4. DOMAIN w = 1 .. n
  OBVIOUS
<1>5. \A j \in (1 .. 13) \ {i, i + 1} : g[j] = f[j]
  BY <1>4 DEF Terms
<1>6. ASSUME NEW j \in 1 .. 13
      PROVE  g[j] \in Nat /\ f[j] \in Nat /\ Part(j) \in Int /\ g[j] - f[j] = Part(j)
  <2>1. CASE j \in 1 .. n
    <3>1. d[j] \in Nat /\ e[j] \in Nat /\ w[j] \in Nat
      <4>1. j \in 1 .. Len(d) /\ j \in 1 .. Len(e)
        BY <1>1, <2>1
      <4>2. d[j] \in 0 .. 9 /\ e[j] \in 0 .. 9
        BY <4>1
      <4> QED
        <5>1. w[j] \in Nat
          BY <2>1
        <5>2. d[j] \in Nat /\ e[j] \in Nat
          BY <4>2
        <5> QED
          BY <5>1, <5>2
    <3>2. g[j] = e[j] * w[j] /\ f[j] = d[j] * w[j]
      BY <1>4, <2>1 DEF Terms
    <3>3. e[j] * w[j] - d[j] * w[j] = (e[j] - d[j]) * w[j] /\ (e[j] - d[j]) * w[j] \in Int
      BY <3>1, TimesMinus
    <3>4. g[j] \in Nat /\ f[j] \in Nat
      BY <1>2, <1>3
    <3> QED
      BY <2>1, <3>2, <3>3, <3>4, Zenon
  <2>2. CASE j \notin 1 .. n
    BY <1>4, <2>2 DEF Terms
  <2> QED
    BY <2>1, <2>2
<1> HIDE DEF f, g, Part
<1>7. Total(g) - Total(f) = g[i] - f[i] + g[i + 1] - f[i + 1]
  <2>1. f \in [1 .. 13 -> Int] /\ g \in [1 .. 13 -> Int]
    BY <1>2, <1>3
  <2> QED
    BY <1>5, <2>1, TotalsDiffer
<1>8. Weighted(d, w) = Total(f) /\ Weighted(e, w) = Total(g)
  BY WeightedIsTotal DEF f, g
<1>9. i \in 1 .. 13 /\ i + 1 \in 1 .. 13
  OBVIOUS
<1>10. Weighted(e, w) - Weighted(d, w) = Part(i) + Part(i + 1)
  <2>1. Weighted(e, w) - Weighted(d, w) = g[i] - f[i] + g[i + 1] - f[i + 1]
    BY <1>7, <1>8
  <2>2. g[i] \in Nat /\ f[i] \in Nat /\ Part(i) \in Int /\ g[i] - f[i] = Part(i)
    BY <1>6, <1>9
  <2>3. g[i + 1] \in Nat /\ f[i + 1] \in Nat /\ Part(i + 1) \in Int
        /\ g[i + 1] - f[i + 1] = Part(i + 1)
    BY <1>6, <1>9
  <2> QED
    BY <1>2, <1>3, <2>1, <2>2, <2>3, AddUp
<1> QED
  BY <1>2, <1>3, <1>10 DEF Change, Part

\* What _validate_cpf and _validate_cnpj make of a sum.
CPFCheck(sum) == LET r == (sum * 10) % 11 IN IF r = 10 THEN 0 ELSE r
CNPJCheck(sum) == LET r == sum % 11 IN IF r < 2 THEN 0 ELSE 11 - r

\* Eleven is prime: no digit times a weight is a multiple of it.
LEMMA NoMultipleOfEleven ==
    ASSUME NEW weight \in 1 .. 10, NEW delta \in -9 .. 9, delta # 0
    PROVE  (delta * weight) % 11 # 0
<1>1. weight \in 1 .. 3 => (delta * weight) % 11 # 0
  OBVIOUS
<1>2. weight \in 4 .. 6 => (delta * weight) % 11 # 0
  OBVIOUS
<1>3. weight \in 7 .. 8 => (delta * weight) % 11 # 0
  OBVIOUS
<1>4. weight \in 9 .. 10 => (delta * weight) % 11 # 0
  OBVIOUS
<1> QED
  BY <1>1, <1>2, <1>3, <1>4

\* Only 0 is the check digit of two remainders.
LEMMA OneRemainderEach ==
    ASSUME NEW sum \in Nat, NEW other \in Nat, (other - sum) % 11 # 0
    PROVE  /\ CPFCheck(sum) = CPFCheck(other) => CPFCheck(other) = 0
           /\ CNPJCheck(sum) = CNPJCheck(other) => CNPJCheck(other) = 0
BY DEF CPFCheck, CNPJCheck


\* Two documents of one kind, and a check digit of theirs, which has the n first digits
\* and their weights.
CheckDigit(d, e, n, w) ==
    \/ IsCPF(d) /\ IsCPF(e) /\ n \in 9 .. 10 /\ w = CPFWeights(n)
    \/ IsCNPJ(d) /\ IsCNPJ(e) /\ n \in 12 .. 13 /\ w = CNPJWeights(n)

\* A check digit is what its sum, of digits weighed 2 to 11, makes it.
LEMMA CheckDigitIs ==
    ASSUME NEW d, NEW e, NEW n, NEW w, CheckDigit(d, e, n, w)
    PROVE  /\ n \in 1 .. 13 /\ n + 1 <= Len(d) /\ Len(d) \in Nat /\ Len(e) = Len(d)
           /\ w \in [1 .. n -> Nat]
           /\ \A i \in 1 .. n : w[i] \in 2 .. 11
           /\ \/ /\ d[n + 1] = CPFCheck(Weighted(d, w)) /\ e[n + 1] = CPFCheck(Weighted(e, w))
              \/ /\ d[n + 1] = CNPJCheck(Weighted(d, w)) /\ e[n + 1] = CNPJCheck(Weighted(e, w))
<1>1. CASE IsCPF(d) /\ IsCPF(e) /\ n \in 9 .. 10 /\ w = CPFWeights(n)
  <2>1. Len(d) = 11 /\ Len(e) = 11
    BY <1>1 DEF IsCPF
  <2>2. d[n + 1] = CPFCheck(Weighted(d, w)) /\ e[n + 1] = CPFCheck(Weighted(e, w))
    BY <1>1, Zenon DEF IsCPF, CPFDigit, CPFCheck
  <2>3. \A i \in 1 .. n : n + 2 - i \in Nat /\ n + 2 - i \in 2 .. 11
    BY <1>1
  <2>4. w \in [1 .. n -> Nat] /\ \A i \in 1 .. n : w[i] \in 2 .. 11
    BY <1>1, <2>3 DEF CPFWeights
  <2>5. n \in 1 .. 13 /\ n + 1 <= Len(d)
    BY <1>1, <2>1
  <2> QED
    BY <2>1, <2>2, <2>4, <2>5
<1>2. CASE IsCNPJ(d) /\ IsCNPJ(e) /\ n \in 12 .. 13 /\ w = CNPJWeights(n)
  <2>1. Len(d) = 14 /\ Len(e) = 14
    BY <1>2 DEF IsCNPJ
  <2>2. d[n + 1] = CNPJCheck(Weighted(d, w)) /\ e[n + 1] = CNPJCheck(Weighted(e, w))
    BY <1>2, Zenon DEF IsCNPJ, CNPJDigit, CNPJCheck
  <2>3. \A i \in 1 .. n : 2 + ((n - i) % 8) \in Nat /\ 2 + ((n - i) % 8) \in 2 .. 11
    BY <1>2
  <2>4. w \in [1 .. n -> Nat] /\ \A i \in 1 .. n : w[i] \in 2 .. 11
    BY <1>2, <2>3 DEF CNPJWeights
  <2>5. n \in 1 .. 13 /\ n + 1 <= Len(d)
    BY <1>2, <2>1
  <2> QED
    BY <2>1, <2>2, <2>4, <2>5
<1> QED
  BY <1>1, <1>2 DEF CheckDigit

\* Where no digit that is weighed differs, the check digit does not either.
LEMMA NothingChanged ==
    ASSUME NEW d, NEW e, NEW n, NEW w, CheckDigit(d, e, n, w), \A j \in 1 .. n : e[j] = d[j]
    PROVE  e[n + 1] = d[n + 1]
<1>1. DOMAIN w = 1 .. n
  BY CheckDigitIs
<1>2. Terms(e, w) = Terms(d, w)
  BY <1>1 DEF Terms
<1>3. Weighted(e, w) = Weighted(d, w)
  BY <1>2, WeightedIsTotal, Zenon
<1>4. \/ d[n + 1] = CPFCheck(Weighted(d, w)) /\ e[n + 1] = CPFCheck(Weighted(e, w))
      \/ d[n + 1] = CNPJCheck(Weighted(d, w)) /\ e[n + 1] = CNPJCheck(Weighted(e, w))
  BY CheckDigitIs
<1>5. CPFCheck(Weighted(e, w)) = CPFCheck(Weighted(d, w))
      /\ CNPJCheck(Weighted(e, w)) = CNPJCheck(Weighted(d, w))
  BY <1>3, Zenon
<1> QED
  BY <1>4, <1>5

\* Its sum changes by the change of the two digits that differ.
LEMMA CheckSumsChange ==
    ASSUME NEW d \in Seq(0 .. 9), NEW e \in Seq(0 .. 9), NEW n, NEW w, CheckDigit(d, e, n, w),
           NEW i \in 1 .. n, i \in 1 .. 12,
           \A j \in 1 .. n : j # i /\ j # i + 1 => e[j] = d[j]
    PROVE  /\ Weighted(d, w) \in Nat /\ Weighted(e, w) \in Nat
           /\ Weighted(e, w) - Weighted(d, w) = Change(d, e, n, w, i)
<1>1. /\ n \in 1 .. 13 /\ n <= Len(d) /\ Len(e) = Len(d) /\ w \in [1 .. n -> Nat]
      /\ \A j \in (1 .. n) \ {i, i + 1} : e[j] = d[j]
  BY CheckDigitIs
<1> QED
  BY <1>1, SumsChange

\* Where two neighbours differ and the check digit is the same, it is 0, or the change
\* of the sum is a multiple of 11.
LEMMA ChangeUnseen ==
    ASSUME NEW d \in Seq(0 .. 9), NEW e \in Seq(0 .. 9), NEW n, NEW w, CheckDigit(d, e, n, w),
           NEW i \in 1 .. n, i \in 1 .. 12,
           \A j \in 1 .. n : j # i /\ j # i + 1 => e[j] = d[j],
           e[n + 1] = d[n + 1],
           Change(d, e, n, w, i) % 11 # 0
    PROVE  e[n + 1] = 0
<1>1. /\ Weighted(d, w) \in Nat /\ Weighted(e, w) \in Nat
      /\ Weighted(e, w) - Weighted(d, w) = Change(d, e, n, w, i)
  BY CheckSumsChange
<1>2. (Weighted(e, w) - Weighted(d, w)) % 11 # 0
  BY <1>1
<1> QED
  BY <1>1, <1>2, CheckDigitIs, OneRemainderEach

\* The difference of two digits, and what it weighs.
LEMMA DigitsMinus ==
    ASSUME NEW a \in 0 .. 9, NEW b \in 0 .. 9, NEW w \in Nat
    PROVE  /\ a - b \in -9 .. 9 /\ a - b \in Int /\ (a - b) * w \in Int
           /\ a # b => a - b # 0
           /\ a = b => (a - b) * w = 0
OBVIOUS

\* A weighed digit is wrong: a check digit that does not tell is 0, but for the weight 11.
LEMMA WrongUnseen ==
    ASSUME NEW d \in Seq(0 .. 9), NEW e \in Seq(0 .. 9), NEW n, NEW w, CheckDigit(d, e, n, w),
           NEW i \in 1 .. n, i \in 1 .. 12, w[i] # 11,
           \A j \in 1 .. n + 1 : j # i => e[j] = d[j],
           e[i] # d[i]
    PROVE  e[n + 1] = 0
<1>1. /\ n \in 1 .. 13 /\ n + 1 <= Len(d) /\ Len(d) \in Nat /\ Len(e) = Len(d)
      /\ \A j \in 1 .. n : w[j] \in 2 .. 11
  BY CheckDigitIs
<1>2. \A j \in 1 .. n + 1 : j \in 1 .. Len(d) /\ j \in 1 .. Len(e)
  BY <1>1
<1>3. \A j \in 1 .. n + 1 : d[j] \in 0 .. 9 /\ e[j] \in 0 .. 9
  BY <1>2
<1>4. /\ e[i] - d[i] \in -9 .. 9 /\ e[i] - d[i] # 0 /\ w[i] \in 1 .. 10
      /\ (e[i] - d[i]) * w[i] \in Int
  <2>1. e[i] \in 0 .. 9 /\ d[i] \in 0 .. 9 /\ w[i] \in 1 .. 10 /\ w[i] \in Nat
    BY <1>1, <1>3
  <2> QED
    BY <2>1, DigitsMinus
<1>5. i + 1 \in 1 .. n => (e[i + 1] - d[i + 1]) * w[i + 1] = 0
  <2> SUFFICES ASSUME i + 1 \in 1 .. n
               PROVE  (e[i + 1] - d[i + 1]) * w[i + 1] = 0
    OBVIOUS
  <2>1. i + 1 \in 1 .. n + 1 /\ i + 1 # i
    BY <1>1
  <2>2. e[i + 1] = d[i + 1]
    BY <2>1
  <2>3. e[i + 1] \in 0 .. 9 /\ d[i + 1] \in 0 .. 9
    BY <1>3, <2>1
  <2>4. w[i + 1] \in Nat
    <3>1. w[i + 1] \in 2 .. 11
      BY <1>1
    <3> QED
      BY <3>1
  <2> QED
    BY <2>2, <2>3, <2>4, DigitsMinus
<1>6. Change(d, e, n, w, i) = (e[i] - d[i]) * w[i]
  BY <1>4, <1>5 DEF Change
<1>7. Change(d, e, n, w, i) % 11 # 0
  BY <1>4, <1>6, NoMultipleOfEleven
<1>8. e[n + 1] = d[n + 1]
  <2>1. n + 1 \in 1 .. n + 1 /\ n + 1 # i
    BY <1>1
  <2> QED
    BY <2>1
<1>9. \A j \in 1 .. n : j # i /\ j # i + 1 => e[j] = d[j]
  <2>1. \A j \in 1 .. n : j \in 1 .. n + 1
    BY <1>1
  <2> QED
    BY <2>1
<1> QED
  BY <1>7, <1>8, <1>9, ChangeUnseen

\* What a swap of two digits is worth, where their weights differ by 1 or by 7.
LEMMA SwapOf ==
    ASSUME NEW a \in 0 .. 9, NEW b \in 0 .. 9, NEW v \in Nat, NEW w \in Nat, v - w \in {1, -7}
    PROVE  (b - a) * v + (a - b) * w \in {b - a, (a - b) * 7}
<1>1. CASE v = w + 1
  BY <1>1
<1>2. CASE w = v + 7
  BY <1>2
<1> QED
  BY <1>1, <1>2

\* A check digit that changes places with a digit of weight 2.
LEMMA CheckOfSwap ==
    ASSUME NEW sum \in Nat, NEW other \in Nat, NEW a \in 0 .. 9, NEW b \in 0 .. 9, a # b,
           other - sum = (b - a) * 2,
           \/ b = CPFCheck(sum) /\ a = CPFCheck(other)
           \/ b = CNPJCheck(sum) /\ a = CNPJCheck(other)
    PROVE  a = 0 \/ b = 0
<1>1. CASE b = CPFCheck(sum) /\ a = CPFCheck(other)
  BY <1>1 DEF CPFCheck
<1>2. CASE b = CNPJCheck(sum) /\ a = CNPJCheck(other)
  BY <1>2 DEF CNPJCheck
<1> QED
  BY <1>1, <1>2

\* Weights fall by one from left to right, or rise from 2 to 9.
LEMMA NeighboursWeigh ==
    ASSUME NEW n, NEW w,
           (n \in 9 .. 10 /\ w = CPFWeights(n)) \/ (n \in 12 .. 13 /\ w = CNPJWeights(n)),
           NEW i \in 1 .. n, i + 1 \in 1 .. n
    PROVE  w[i] - w[i + 1] \in {1, -7} /\ w[i] \in Nat /\ w[i + 1] \in Nat
<1>1. CASE n \in 9 .. 10 /\ w = CPFWeights(n)
  <2>1. w[i] = n + 2 - i /\ w[i + 1] = n + 2 - (i + 1)
    BY <1>1 DEF CPFWeights
  <2> QED
    BY <1>1, <2>1
<1>2. CASE n \in 12 .. 13 /\ w = CNPJWeights(n)
  <2>1. w[i] = 2 + ((n - i) % 8) /\ w[i + 1] = 2 + ((n - (i + 1)) % 8)
    BY <1>2 DEF CNPJWeights
  <2> QED
    BY <1>2, <2>1
<1> QED
  BY <1>1, <1>2

\* Two neighbours that are both weighed are swapped.
LEMMA SwapUnseen ==
    ASSUME NEW d \in Seq(0 .. 9), NEW e \in Seq(0 .. 9), NEW n, NEW w, CheckDigit(d, e, n, w),
           NEW i \in 1 .. n, i + 1 \in 1 .. n, i \in 1 .. 12,
           \A j \in 1 .. n : j # i /\ j # i + 1 => e[j] = d[j],
           e[n + 1] = d[n + 1],
           e[i] = d[i + 1], e[i + 1] = d[i], e[i] # d[i]
    PROVE  e[n + 1] = 0
<1>1. w[i] - w[i + 1] \in {1, -7} /\ w[i] \in Nat /\ w[i + 1] \in Nat
  BY NeighboursWeigh DEF CheckDigit
<1>2. d[i] \in 0 .. 9 /\ d[i + 1] \in 0 .. 9
  <2>1. n + 1 <= Len(d) /\ Len(d) \in Nat /\ n \in 1 .. 13
    BY CheckDigitIs
  <2>2. i \in 1 .. Len(d) /\ i + 1 \in 1 .. Len(d)
    BY <2>1
  <2> QED
    BY <2>2
<1>3. Change(d, e, n, w, i) = (d[i + 1] - d[i]) * w[i] + (d[i] - d[i + 1]) * w[i + 1]
  BY DEF Change
<1>4. Change(d, e, n, w, i) \in {d[i + 1] - d[i], (d[i] - d[i + 1]) * 7}
  <2>1. (d[i + 1] - d[i]) * w[i] + (d[i] - d[i + 1]) * w[i + 1]
          \in {d[i + 1] - d[i], (d[i] - d[i + 1]) * 7}
    BY <1>1, <1>2, SwapOf, Zenon
  <2> QED
    BY <1>3, <2>1, Zenon
<1>5. /\ ((d[i + 1] - d[i]) * 1) % 11 # 0 /\ ((d[i] - d[i + 1]) * 7) % 11 # 0
      /\ d[i + 1] - d[i] \in Int
  <2>1. /\ d[i + 1] - d[i] \in -9 .. 9 /\ d[i + 1] - d[i] # 0
        /\ d[i] - d[i + 1] \in -9 .. 9 /\ d[i] - d[i + 1] # 0
    BY <1>2, DigitsMinus
  <2>2. 1 \in 1 .. 10 /\ 7 \in 1 .. 10
    OBVIOUS
  <2>3. ((d[i + 1] - d[i]) * 1) % 11 # 0
    BY <2>1, <2>2, NoMultipleOfEleven
  <2>4. ((d[i] - d[i + 1]) * 7) % 11 # 0
    BY <2>1, <2>2, NoMultipleOfEleven
  <2>5. d[i + 1] - d[i] \in Int
    BY <1>2, DigitsMinus
  <2> QED
    BY <2>3, <2>4, <2>5
<1>6. Change(d, e, n, w, i) % 11 # 0
  BY <1>4, <1>5
<1> QED
  BY <1>6, ChangeUnseen

\* The last weighed digit and the check digit itself are swapped: one of them is 0.
LEMMA CheckSwapUnseen ==
    ASSUME NEW d \in Seq(0 .. 9), NEW e \in Seq(0 .. 9), NEW n, NEW w, CheckDigit(d, e, n, w),
           n \in 1 .. 12,
           \A j \in 1 .. n : j # n => e[j] = d[j],
           e[n] = d[n + 1], e[n + 1] = d[n], e[n] # d[n]
    PROVE  e[n + 1] = 0 \/ d[n + 1] = 0
<1>1. /\ n \in 1 .. 13 /\ n + 1 <= Len(d) /\ Len(d) \in Nat /\ Len(e) = Len(d)
      /\ w \in [1 .. n -> Nat]
  BY CheckDigitIs
<1>2. w[n] = 2
  BY DEF CheckDigit, CPFWeights, CNPJWeights
<1>3. d[n] \in 0 .. 9 /\ d[n + 1] \in 0 .. 9
  <2>1. n \in 1 .. Len(d) /\ n + 1 \in 1 .. Len(d)
    BY <1>1
  <2> QED
    BY <2>1
<1>4. /\ Weighted(d, w) \in Nat /\ Weighted(e, w) \in Nat
      /\ Weighted(e, w) - Weighted(d, w) = Change(d, e, n, w, n)
  <2>1. n \in 1 .. n /\ \A j \in 1 .. n : j # n /\ j # n + 1 => e[j] = d[j]
    BY <1>1
  <2> QED
    BY <2>1, CheckSumsChange
<1>5. Change(d, e, n, w, n) = (d[n + 1] - d[n]) * 2
  <2>1. n \in 1 .. n /\ n + 1 \notin 1 .. n
    BY <1>1
  <2>2. (d[n + 1] - d[n]) * 2 \in Int
    BY <1>3, DigitsMinus
  <2> QED
    BY <1>2, <2>1, <2>2 DEF Change
<1>6. Weighted(e, w) - Weighted(d, w) = (d[n + 1] - d[n]) * 2
  BY <1>4, <1>5
<1>7. \/ d[n + 1] = CPFCheck(Weighted(d, w)) /\ d[n] = CPFCheck(Weighted(e, w))
      \/ d[n + 1] = CNPJCheck(Weighted(d, w)) /\ d[n] = CNPJCheck(Weighted(e, w))
  BY CheckDigitIs
<1> QED
  BY <1>3, <1>4, <1>6, <1>7, CheckOfSwap

\* The two check digits of a document that has n digits more.
Kind(d, e, n, v, w) ==
    /\ n \in {9, 12} /\ Len(d) = n + 2 /\ Len(e) = n + 2
    /\ CheckDigit(d, e, n, v) /\ CheckDigit(d, e, n + 1, w)
    /\ \A i \in 1 .. n : v[i] # 11 /\ (w[i] = 11 => i = 1 /\ n = 9)

\* Two documents of one kind have two check digits each.
LEMMA DocumentsHaveAKind ==
    ASSUME NEW d, NEW e, (IsCPF(d) /\ IsCPF(e)) \/ (IsCNPJ(d) /\ IsCNPJ(e))
    PROVE  \E n, v, w : Kind(d, e, n, v, w)
<1>1. CASE IsCPF(d) /\ IsCPF(e)
  <2>1. CheckDigit(d, e, 9, CPFWeights(9)) /\ CheckDigit(d, e, 9 + 1, CPFWeights(10))
    BY <1>1 DEF CheckDigit
  <2>2. \A i \in 1 .. 9 : CPFWeights(9)[i] # 11 /\ (CPFWeights(10)[i] = 11 => i = 1)
    BY DEF CPFWeights
  <2>3. Len(d) = 9 + 2 /\ Len(e) = 9 + 2
    BY <1>1 DEF IsCPF
  <2>4. Kind(d, e, 9, CPFWeights(9), CPFWeights(10))
    BY <2>1, <2>2, <2>3 DEF Kind
  <2> QED
    BY <2>4
<1>2. CASE IsCNPJ(d) /\ IsCNPJ(e)
  <2>1. CheckDigit(d, e, 12, CNPJWeights(12)) /\ CheckDigit(d, e, 12 + 1, CNPJWeights(13))
    BY <1>2 DEF CheckDigit
  <2>2. \A i \in 1 .. 12 : CNPJWeights(12)[i] # 11 /\ CNPJWeights(13)[i] # 11
    BY DEF CNPJWeights
  <2>3. Len(d) = 12 + 2 /\ Len(e) = 12 + 2
    BY <1>2 DEF IsCNPJ
  <2>4. Kind(d, e, 12, CNPJWeights(12), CNPJWeights(13))
    BY <2>1, <2>2, <2>3 DEF Kind
  <2> QED
    BY <2>4
<1> QED
  BY <1>1, <1>2

\* One digit of a document is wrong, and it is a document still.
LEMMA WrongSlipsThrough ==
    ASSUME NEW d \in Seq(0 .. 9), NEW e \in Seq(0 .. 9),
           NEW n, NEW v, NEW w, Kind(d, e, n, v, w),
           NEW i \in 1 .. n + 2, e[i] # d[i], \A j \in 1 .. n + 2 : j # i => e[j] = d[j]
    PROVE  SlipsThrough(e, d)
<1>1. n \in {9, 12} /\ CheckDigit(d, e, n, v) /\ CheckDigit(d, e, n + 1, w) /\ Len(e) = n + 2
  BY DEF Kind
<1>2. CASE i = n + 2
  <2>1. \A j \in 1 .. n + 1 : e[j] = d[j]
    BY <1>1, <1>2
  <2>2. e[n + 1 + 1] = d[n + 1 + 1]
    BY <1>1, <2>1, NothingChanged
  <2> QED
    BY <1>1, <1>2, <2>2
<1>3. CASE i = n + 1
  <2>1. \A j \in 1 .. n : e[j] = d[j]
    BY <1>1, <1>3
  <2>2. e[n + 1] = d[n + 1]
    BY <1>1, <2>1, NothingChanged
  <2> QED
    BY <1>1, <1>3, <2>2
<1>4. CASE i \in 1 .. n
  <2>1. v[i] # 11 /\ i \in 1 .. 12 /\ i \in 1 .. n + 1 /\ (w[i] = 11 => i = 1 /\ n = 9)
    BY <1>1, <1>4 DEF Kind
  <2>2. e[n + 1] = 0
    <3>1. \A j \in 1 .. n + 1 : j # i => e[j] = d[j]
      BY <1>1
    <3>2. CheckDigit(d, e, n, v) /\ v[i] # 11 /\ i \in 1 .. 12
      BY <1>1, <2>1
    <3> QED
      BY <1>4, <3>1, <3>2, WrongUnseen
  <2>3. CASE w[i] = 11
    BY <1>1, <2>1, <2>2, <2>3 DEF SlipsThrough
  <2>4. CASE w[i] # 11
    <3>1. \A j \in 1 .. n + 1 + 1 : j # i => e[j] = d[j]
      BY <1>1
    <3>2. CheckDigit(d, e, n + 1, w) /\ i \in 1 .. 12 /\ i \in 1 .. n + 1
      BY <1>1, <2>1
    <3>4. e[n + 1 + 1] = 0
      BY <2>4, <3>1, <3>2, WrongUnseen
    <3>3. e[n + 2] = 0 /\ e[n + 2 - 1] = 0
      BY <1>1, <2>2, <3>4
    <3> QED
      BY <1>1, <3>3 DEF SlipsThrough, EndsInZeros
  <2> QED
    BY <2>3, <2>4
<1> QED
  BY <1>1, <1>2, <1>3, <1>4

\* Two neighbours are swapped.
LEMMA SwapSlipsThrough ==
    ASSUME NEW d \in Seq(0 .. 9), NEW e \in Seq(0 .. 9),
           NEW n, NEW v, NEW w, Kind(d, e, n, v, w),
           NEW i \in 1 .. n + 1, e[i] = d[i + 1], e[i + 1] = d[i], e[i] # d[i],
           \A j \in 1 .. n + 2 : j # i /\ j # i + 1 => e[j] = d[j]
    PROVE  SlipsThrough(e, d)
<1>1. /\ n \in {9, 12} /\ CheckDigit(d, e, n, v) /\ CheckDigit(d, e, n + 1, w)
      /\ Len(e) = n + 2 /\ Len(d) = n + 2
  BY DEF Kind
<1>2. CASE i = n + 1
  <2>1. \A j \in 1 .. n : e[j] = d[j]
    BY <1>1, <1>2
  <2>2. e[n + 1] = d[n + 1]
    BY <1>1, <2>1, NothingChanged
  <2> QED
    BY <1>1, <1>2, <2>2
<1>3. CASE i \in 1 .. n
  <2>1. i \in 1 .. 12 /\ i \in 1 .. n + 1 /\ i + 1 \in 1 .. n + 1
    BY <1>1, <1>3
  <2>2. e[n + 1 + 1] = 0
    <3>1. /\ \A j \in 1 .. n + 1 : j # i /\ j # i + 1 => e[j] = d[j]
          /\ e[n + 1 + 1] = d[n + 1 + 1]
      BY <1>1, <1>3
    <3> QED
      BY <1>1, <2>1, <3>1, SwapUnseen
  <2>3. CASE i = n
    <3>1. \A j \in 1 .. n : j # n => e[j] = d[j]
      BY <1>1, <2>3
    <3>2. e[n] = d[n + 1] /\ e[n + 1] = d[n] /\ e[n] # d[n] /\ n \in 1 .. 12
      BY <1>1, <2>3
    <3>3. e[n + 1] = 0 \/ d[n + 1] = 0
      BY <1>1, <3>1, <3>2, CheckSwapUnseen
    <3>4. e[n + 2] = 0 /\ d[n + 2] = 0 /\ n + 2 - 1 = n + 1
      BY <1>1, <2>2, <2>3
    <3> QED
      BY <1>1, <3>3, <3>4 DEF SlipsThrough, EndsInZeros
  <2>4. CASE i # n
    <3>1. /\ i + 1 \in 1 .. n /\ e[n + 1] = d[n + 1]
          /\ \A j \in 1 .. n : j # i /\ j # i + 1 => e[j] = d[j]
      BY <1>1, <1>3, <2>4
    <3>2. e[n + 1] = 0
      BY <1>1, <1>3, <2>1, <3>1, SwapUnseen
    <3>3. e[n + 2] = 0 /\ n + 2 - 1 = n + 1
      BY <1>1, <2>2
    <3> QED
      BY <1>1, <3>2, <3>3 DEF SlipsThrough, EndsInZeros
  <2> QED
    BY <2>3, <2>4
<1> QED
  BY <1>1, <1>2, <1>3

\* Without one of its digits it is no document.
LEMMA MissingIsShorter ==
    ASSUME NEW d \in Seq(0 .. 9), NEW i \in 1 .. Len(d)
    PROVE  Len(RemoveAt(d, i)) = Len(d) - 1
<1> DEFINE a == SubSeq(d, 1, i - 1)
           b == SubSeq(d, i + 1, Len(d))
<1>1. Len(d) \in Nat /\ i \in Int /\ 1 <= i /\ i <= Len(d)
  OBVIOUS
<1>2. a \in Seq(0 .. 9) /\ Len(a) = i - 1
  <2>1. \A k \in 1 .. i - 1 : d[k] \in 0 .. 9
    OBVIOUS
  <2>2. Len(a) = IF 1 <= i - 1 THEN i - 1 - 1 + 1 ELSE 0
    BY <1>1, <2>1, SubSeqProperties
  <2> QED
    BY <1>1, <2>1, <2>2, SubSeqProperties
<1>3. b \in Seq(0 .. 9) /\ Len(b) = Len(d) - i
  <2>1. \A k \in i + 1 .. Len(d) : d[k] \in 0 .. 9
    BY <1>1
  <2>2. Len(b) = IF i + 1 <= Len(d) THEN Len(d) - (i + 1) + 1 ELSE 0
    BY <1>1, <2>1, SubSeqProperties
  <2> QED
    BY <1>1, <2>1, <2>2, SubSeqProperties
<1> HIDE DEF a, b
<1>4. Len(a \o b) = Len(a) + Len(b)
  BY <1>2, <1>3, ConcatProperties
<1>5. Len(a \o b) = (i - 1) + (Len(d) - i)
  BY <1>2, <1>3, <1>4, Zenon
<1>6. RemoveAt(d, i) = a \o b
  BY Zenon DEF RemoveAt, a, b
<1>7. (i - 1) + (Len(d) - i) = Len(d) - 1
  BY <1>1
<1> QED
  BY <1>5, <1>6, <1>7, Zenon

\* What is typed for a document and is a document.
LEMMA SlipsGetThrough ==
    ASSUME NEW d \in Seq(0 .. 9), IsDocument(d), NEW e \in Slips(d), IsDocument(e), e # d
    PROVE  SlipsThrough(e, d)
<1>1. Len(d) \in {11, 14} /\ Len(e) \in {11, 14}
  BY DEF IsDocument, IsCPF, IsCNPJ
<1>2. \A i \in 1 .. Len(d) : d[i] \in 0 .. 9
  OBVIOUS
<1>3. Len(e) = Len(d) => \E n, v, w : Kind(d, e, n, v, w)
  <2> SUFFICES ASSUME Len(e) = Len(d) PROVE \E n, v, w : Kind(d, e, n, v, w)
    OBVIOUS
  <2>1. /\ IsCPF(d) => Len(d) = 11
        /\ IsCPF(e) => Len(e) = 11
        /\ IsCNPJ(d) => Len(d) = 14
        /\ IsCNPJ(e) => Len(e) = 14
    BY Zenon DEF IsCPF, IsCNPJ
  <2>2. 11 # 14
    OBVIOUS
  <2>3. (IsCPF(d) /\ IsCPF(e)) \/ (IsCNPJ(d) /\ IsCNPJ(e))
    BY <2>1, <2>2, Zenon DEF IsDocument
  <2> QED
    BY <2>3, DocumentsHaveAKind
<1>4. CASE e \in OneWrong(d)
  <2>1. PICK i \in 1 .. Len(d), x \in 0 .. 9 : e = [d EXCEPT ![i] = x]
    BY <1>1, <1>4 DEF OneWrong
  <2>2. e \in Seq(0 .. 9) /\ Len(e) = Len(d) /\ e[i] = x /\ \A j \in 1 .. Len(d) : j # i => e[j] = d[j]
    BY <1>1, <1>2, <2>1
  <2>3. PICK n, v, w : Kind(d, e, n, v, w)
    BY <1>3, <2>2
  <2>4. e[i] # d[i]
    <3>1. e[i] = d[i] => e = d
      BY <1>1, <1>2, <2>1
    <3> QED
      BY <3>1
  <2>5. Len(d) = n + 2
    BY <2>3 DEF Kind
  <2> QED
    BY <2>2, <2>3, <2>4, <2>5, WrongSlipsThrough
<1>5. CASE e \in TwoSwapped(d)
  <2>1. PICK i \in 1 .. Len(d) - 1 : e = [d EXCEPT ![i] = d[i + 1], ![i + 1] = d[i]]
    BY <1>5 DEF TwoSwapped
  <2>2. i \in 1 .. Len(d) /\ i + 1 \in 1 .. Len(d) /\ i # i + 1
    BY <1>1
  <2>3. /\ e \in Seq(0 .. 9) /\ Len(e) = Len(d) /\ e[i] = d[i + 1] /\ e[i + 1] = d[i]
        /\ \A j \in 1 .. Len(d) : j # i /\ j # i + 1 => e[j] = d[j]
    BY <1>2, <2>1, <2>2
  <2>4. PICK n, v, w : Kind(d, e, n, v, w)
    BY <1>3, <2>3
  <2>5. e[i] # d[i]
    <3>1. d[i + 1] = d[i] => e = d
      BY <1>1, <1>2, <2>1, <2>2
    <3> QED
      BY <2>3, <3>1
  <2>6. Len(d) = n + 2 /\ n \in {9, 12}
    BY <2>4 DEF Kind
  <2>7. i \in 1 .. n + 1
    BY <2>6
  <2> QED
    BY <2>3, <2>4, <2>5, <2>6, <2>7, SwapSlipsThrough
<1>6. CASE e \in OneMissing(d)
  <2>1. PICK i \in 1 .. Len(d) : e = RemoveAt(d, i)
    BY <1>1, <1>6 DEF OneMissing
  <2>2. Len(e) = Len(d) - 1
    BY <2>1, MissingIsShorter
  <2>3. \A x, y \in {11, 14} : y # x - 1
    OBVIOUS
  <2> QED
    BY <1>1, <2>2, <2>3, Zenon
<1> QED
  BY <1>4, <1>5, <1>6 DEF Slips

\* People have documents, and type them with one slip at most.
OneSlipTyped == \A a \in Account :
    IsDocument(documentOf[a]) /\ Typed[a] \subseteq Slips(documentOf[a])

\* One wrong digit, two swapped ones or a missing one get past the check digits only where
\* a check digit is 0, or in the first digit of a CPF, for every document.
THEOREM OnlyZerosSlipThrough == ASSUME OneSlipTyped PROVE Spec => []OnlyZerosSlip
<1>1. TypeOK /\ Submitted => OnlyZerosSlip
  <2> SUFFICES ASSUME TypeOK, Submitted, NEW c \in Call, pc[c] \notin {"idle", "refused"},
                      document[c] # documentOf[account[c]]
               PROVE  SlipsThrough(document[c], documentOf[account[c]])
    BY DEF OnlyZerosSlip
  <2>1. account[c] \in Account /\ document[c] \in Seq(0 .. 9)
    BY DEF TypeOK
  <2>2. document[c] \in Accepted[account[c]]
    BY DEF Submitted, Checked
  <2>3. document[c] \in Typed[account[c]] /\ IsDocument(document[c])
    BY <2>1, <2>2 DEF Accepted
  <2>4. documentOf[account[c]] \in Seq(0 .. 9)
    BY <2>1, DocumentAssumption
  <2>5. document[c] \in Slips(documentOf[account[c]]) /\ IsDocument(documentOf[account[c]])
    BY <2>1, <2>3 DEF OneSlipTyped
  <2> QED
    BY <2>3, <2>4, <2>5, SlipsGetThrough
<1> QED
  BY TypesHold, <1>1, PTL
=============================================================================
