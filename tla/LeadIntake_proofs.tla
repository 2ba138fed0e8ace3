------------------------- MODULE LeadIntake_proofs -------------------------
(***************************************************************************)
(* Theorems about LeadIntake, for any number of phones, forms, handlers    *)
(* and deliveries.                                                         *)
(*                                                                         *)
(* The three questions (is a lead announced once, is a duplicate blocked,  *)
(* is an opt-out honoured) have an inductive invariant each; all of them   *)
(* rest on the type invariant.                                             *)
(***************************************************************************)
EXTENDS LeadIntake, FiniteSetTheorems, TLAPS

-----------------------------------------------------------------------------
(* Types.                                                                  *)

\* A request that is being delivered carries a webhook, whose form names a
\* lead.
LEMMA DeliveryKnown ==
    ASSUME IntakeTypeOK, NEW h \in Handlers, Delivering(h)
    PROVE  /\ handler[h] \in Delivery
           /\ Form(h) \in Forms
           /\ Key(h) \in LeadKeys
           /\ handler[h].webhook \in Webhooks
           /\ Key(h) = KeyOf(handler[h].webhook)
<1>1. handler[h] \in Delivery \cup OptOut \cup {NoWork}
  BY DEF IntakeTypeOK
<1>2. handler[h] \in Delivery
  BY <1>1 DEF Delivering, At, OptOut
<1>. QED  BY <1>2, IntakeAssumption DEF Delivery, Form, Key, KeyOf, Forms, LeadKeys

\* The program counter of a delivery tells it from an opt-out and from an idle
\* slot.
LEMMA AtDelivering ==
    ASSUME NEW h \in Handlers,
           handler[h].pc \in {"suppression", "duplicate", "insert", "audit", "push"}
    PROVE  Delivering(h)
BY DEF Delivering, At, NoWork

\* A new lead is a lead and not the absence of one.
LEMMA NewLeadIsLead ==
    ASSUME NEW form, NEW duplicate \in BOOLEAN
    PROVE  NewLead(form, duplicate) \in Lead
BY DEF NewLead, Lead

LEMMA LeadIsNotNone == NoLead \notin Lead
<1>. SUFFICES ASSUME NoLead \in Lead PROVE FALSE
  OBVIOUS
<1>1. "hold" \in DOMAIN NoLead
  BY DEF Lead
<1>. QED  BY <1>1 DEF NoLead

LEMMA IntakeTypeInit == IntakeInit => IntakeTypeOK
BY DEF IntakeInit, IntakeTypeOK, NoWork, LeadKeys

LEMMA IntakeTypeStep == IntakeTypeOK /\ [IntakeNext]_vars => IntakeTypeOK'
<1>. SUFFICES ASSUME IntakeTypeOK, [IntakeNext]_vars PROVE IntakeTypeOK'
  OBVIOUS
<1>. DEFINE Working == Delivery \cup OptOut \cup {NoWork}
<1>0. ASSUME NEW h \in Handlers, NEW v \in Working
      PROVE  [handler EXCEPT ![h] = v] \in [Handlers -> Working]
  BY <1>0 DEF IntakeTypeOK
<1>1. ASSUME NEW h \in Handlers, Finish(h) PROVE handler' \in [Handlers -> Working]
  BY <1>0, <1>1 DEF Finish
<1>2. ASSUME NEW h \in Handlers, Delivering(h),
             NEW pc \in {"suppression", "duplicate", "insert", "audit", "push"},
             Goto(h, pc)
      PROVE  handler' \in [Handlers -> Working]
  <2>1. [handler[h] EXCEPT !.pc = pc] \in Delivery
    BY <1>2, DeliveryKnown DEF Delivery
  <2>. QED  BY <1>0, <1>2, <2>1 DEF Goto
<1>3. CASE \E h \in Handlers, w \in Webhooks : Deliver(h, w)
  <2>. PICK h \in Handlers, w \in Webhooks : Deliver(h, w)
    BY <1>3
  <2>1. [pc |-> "suppression", webhook |-> w,
         known |-> {c \in optedOut : Matches(c, FormOf[w])},
         duplicate |-> FALSE, created |-> FALSE] \in Delivery
    BY DEF IntakeTypeOK, Delivery
  <2>2. KeyOf(w) \in LeadKeys
    BY IntakeAssumption DEF KeyOf, LeadKeys, Forms
  <2>. QED  BY <1>0, <2>1, <2>2 DEF Deliver, IntakeTypeOK
<1>4. ASSUME NEW h \in Handlers, CheckSuppression(h) PROVE IntakeTypeOK'
  <2>1. Delivering(h)
    BY <1>4, AtDelivering DEF CheckSuppression, At
  <2>. QED  BY <1>1, <1>2, <1>4, <2>1 DEF CheckSuppression, IntakeTypeOK
<1>5. ASSUME NEW h \in Handlers, CheckDuplicate(h) PROVE IntakeTypeOK'
  <2>1. Delivering(h)
    BY <1>5, AtDelivering DEF CheckDuplicate, At
  <2>2. [handler[h] EXCEPT !.pc = "insert",
           !.duplicate = RecentLeads(Form(h).phone) # {}] \in Delivery
    BY <2>1, DeliveryKnown DEF Delivery
  <2>3. Form(h).phone \in Phones
    BY <2>1, DeliveryKnown DEF Forms
  <2>. QED  BY <1>0, <1>5, <2>2, <2>3 DEF CheckDuplicate, IntakeTypeOK
<1>6. ASSUME NEW h \in Handlers, InsertLead(h) PROVE IntakeTypeOK'
  <2>1. Delivering(h)
    BY <1>6, AtDelivering DEF InsertLead, At
  <2>. DEFINE new == leads[Key(h)] = NoLead
  <2>2. [handler[h] EXCEPT !.pc = "audit", !.created = new] \in Delivery
    BY <2>1, DeliveryKnown DEF Delivery
  <2>3. leads' \in [LeadKeys -> Lead \cup {NoLead}]
    BY <1>6, <2>1, DeliveryKnown, NewLeadIsLead DEF InsertLead, IntakeTypeOK, Delivery
  <2>4. disregarded' \subseteq Webhooks \X Contacts
    BY <1>6, <2>1, DeliveryKnown DEF InsertLead, IntakeTypeOK, Delivery
  <2>. QED  BY <1>0, <1>6, <2>2, <2>3, <2>4 DEF InsertLead, IntakeTypeOK
<1>7. ASSUME NEW h \in Handlers, RecordAudit(h) PROVE IntakeTypeOK'
  <2>1. Delivering(h)
    BY <1>7, AtDelivering DEF RecordAudit, At
  <2>. QED  BY <1>1, <1>2, <1>7, <2>1, DeliveryKnown DEF RecordAudit, IntakeTypeOK
<1>8. ASSUME NEW h \in Handlers, PushCaptured(h) PROVE IntakeTypeOK'
  <2>1. Delivering(h)
    BY <1>8, AtDelivering DEF PushCaptured, At
  <2>. QED  BY <1>1, <1>8, <2>1, DeliveryKnown DEF PushCaptured, IntakeTypeOK
<1>9. ASSUME NEW h \in Handlers, Fail(h) PROVE IntakeTypeOK'
  BY <1>1, <1>9, DeliveryKnown DEF Fail, IntakeTypeOK
<1>10. ASSUME NEW h \in Handlers, NEW c \in Contacts, FindEntry(h, c)
       PROVE  IntakeTypeOK'
  <2>1. [pc |-> "entry", contact |-> c] \in OptOut
    BY DEF OptOut
  <2>. QED  BY <1>0, <1>10, <2>1 DEF FindEntry, IntakeTypeOK
<1>11. ASSUME NEW h \in Handlers, InsertEntry(h) PROVE IntakeTypeOK'
  <2>1. handler[h] \in OptOut
    BY <1>11 DEF InsertEntry, At, IntakeTypeOK, Delivery, NoWork
  <2>. QED  BY <1>1, <1>11, <2>1 DEF InsertEntry, IntakeTypeOK, OptOut
<1>12. ASSUME NEW k \in LeadKeys, Age(k) PROVE IntakeTypeOK'
  <2>1. leads[k] \in Lead
    BY <1>12 DEF Age, IntakeTypeOK, NoLead
  <2>2. [leads[k] EXCEPT !.recent = FALSE] \in Lead
    BY <2>1 DEF Lead
  <2>. QED  BY <1>12, <2>2 DEF Age, IntakeTypeOK
<1>13. CASE UNCHANGED vars
  BY <1>13 DEF vars, IntakeTypeOK
<1>. QED
  BY <1>3, <1>4, <1>5, <1>6, <1>7, <1>8, <1>9, <1>10, <1>11, <1>12, <1>13
     DEF IntakeNext

\* Every variable of the intake has its type.
THEOREM IntakeTypeCorrect == IntakeSpec => []IntakeTypeOK
BY IntakeTypeInit, IntakeTypeStep, PTL DEF IntakeSpec

-----------------------------------------------------------------------------
(* Who announces a lead.                                                   *)

Exists(k)  == leads[k] # NoLead
Creator(h) == Delivering(h) /\ handler[h].created

\* A handler knows that it made the lead only after the insert, and pushes
\* only if it made it; the lead is there from then on.
CreatorsHaveInserted ==
    \A h \in Handlers :
        /\ Creator(h) => handler[h].pc \in {"audit", "push"}
        /\ At(h, "push") => handler[h].created
        /\ handler[h].pc \in {"audit", "push"} => Exists(Key(h))

\* An audited or accepted webhook has its lead.
AuditsHaveLeads == \A w \in audits \cup accepted : Exists(KeyOf(w))

\* The right to announce a lead passes from its insert to one handler and
\* from there to the event.
AnnouncedByCreator ==
    \A k \in LeadKeys :
        /\ announced[k] <= 1
        /\ ~Exists(k) => announced[k] = 0
        /\ \A h \in Handlers : Creator(h) /\ Key(h) = k =>
              /\ announced[k] = 0
              /\ \A o \in Handlers : Creator(o) /\ Key(o) = k => o = h

\* A lead is announced, about to be, or its handling was disturbed.
LeadsAreCovered ==
    \A k \in LeadKeys :
        Exists(k) => \/ announced[k] > 0
                     \/ k \in disturbed
                     \/ \E h \in Handlers : Creator(h) /\ Key(h) = k

\* Two deliveries of one webhook in flight are noted, and so is what they may
\* lead to: the audit row is made by the one that did not make the lead.
OverlapsAreNoted ==
    /\ \A h, o \in Handlers :
          Delivering(h) /\ Delivering(o) /\ h # o
            /\ handler[h].webhook = handler[o].webhook => Key(h) \in disturbed
    /\ \A h \in Handlers :
          At(h, "audit") /\ handler[h].created /\ handler[h].webhook \in audits
            => Key(h) \in disturbed

AnnounceInv ==
    /\ CreatorsHaveInserted
    /\ AuditsHaveLeads
    /\ AnnouncedByCreator
    /\ LeadsAreCovered
    /\ OverlapsAreNoted

\* A slot that is not the creator of a lead, before or after, takes a step that
\* leaves the leads, the audits and the events alone.
LEMMA QuietSlot ==
    ASSUME IntakeTypeOK, IntakeTypeOK', AnnounceInv, NEW h \in Handlers,
           \A o \in Handlers \ {h} : handler'[o] = handler[o],
           ~Creator(h), ~(Creator(h)'), handler'[h].pc \notin {"audit", "push"},
           (Delivering(h)') =>
               \/ Delivering(h) /\ handler'[h].webhook = handler[h].webhook
               \/ \A o \in Handlers \ {h} :
                     Delivering(o) /\ handler[o].webhook = handler'[h].webhook
                        => Key(o) \in disturbed',
           disturbed \subseteq disturbed',
           UNCHANGED <<leads, audits, announced, accepted>>
    PROVE  AnnounceInv'
<1>1. \A o \in Handlers \ {h} :
        /\ (Delivering(o)') = Delivering(o)
        /\ (Creator(o)') = Creator(o)
        /\ (Key(o)') = Key(o)
  BY DEF Delivering, Creator, At, Key
<1>2. \A k : (Exists(k)') = Exists(k)
  BY DEF Exists
<1>3. CreatorsHaveInserted'
  BY <1>1, <1>2 DEF AnnounceInv, CreatorsHaveInserted, At
<1>4. AuditsHaveLeads'
  BY <1>2 DEF AnnounceInv, AuditsHaveLeads
<1>5. AnnouncedByCreator'
  BY <1>1, <1>2 DEF AnnounceInv, AnnouncedByCreator
<1>6. LeadsAreCovered'
  BY <1>1, <1>2 DEF AnnounceInv, LeadsAreCovered
<1>7. OverlapsAreNoted'
  <2>1. ASSUME NEW f \in Handlers, NEW o \in Handlers, Delivering(f)', Delivering(o)',
               f # o, handler'[f].webhook = handler'[o].webhook
        PROVE  (Key(f)') \in disturbed'
    <3>1. (Key(f)') = Key(o)'
      BY <2>1 DEF Key
    <3>2. CASE f # h /\ o # h
      BY <1>1, <2>1, <3>2 DEF AnnounceInv, OverlapsAreNoted
    <3>3. CASE f = h
      BY <1>1, <2>1, <3>1, <3>3 DEF AnnounceInv, OverlapsAreNoted
    <3>4. CASE o = h
      BY <1>1, <2>1, <3>1, <3>4 DEF AnnounceInv, OverlapsAreNoted
    <3>. QED  BY <3>2, <3>3, <3>4
  <2>2. ASSUME NEW o \in Handlers, At(o, "audit")', handler'[o].created,
               handler'[o].webhook \in audits'
        PROVE  (Key(o)') \in disturbed'
    <3>1. o # h
      BY <2>2 DEF At
    <3>. QED  BY <1>1, <2>2, <3>1 DEF AnnounceInv, OverlapsAreNoted, At
  <2>. QED  BY <2>1, <2>2 DEF OverlapsAreNoted
<1>. QED  BY <1>3, <1>4, <1>5, <1>6, <1>7 DEF AnnounceInv

\* The insert makes its handler the creator if the lead is new.
LEMMA InsertAnnounces ==
    ASSUME IntakeTypeOK, IntakeTypeOK', AnnounceInv, NEW h \in Handlers, InsertLead(h)
    PROVE  AnnounceInv'
<1>. DEFINE new == leads[Key(h)] = NoLead
<1>1. Delivering(h) /\ ~Creator(h) /\ h \in Handlers /\ handler[h].pc = "insert"
  BY AtDelivering DEF InsertLead, At, AnnounceInv, CreatorsHaveInserted
<1>2. handler[h] \in Delivery /\ Key(h) \in LeadKeys
        /\ handler[h].webhook \in Webhooks /\ Key(h) = KeyOf(handler[h].webhook)
  BY <1>1, DeliveryKnown
<1>3. /\ handler'[h].pc = "audit" /\ handler'[h].created = new
      /\ handler'[h].webhook = handler[h].webhook
      /\ (Key(h)') = Key(h)
      /\ handler'[h] # NoWork
  BY <1>2 DEF InsertLead, Delivery, IntakeTypeOK, Key, Form, NoWork
<1>4. \A o \in Handlers \ {h} :
        /\ handler'[o] = handler[o]
        /\ (Delivering(o)') = Delivering(o)
        /\ (Creator(o)') = Creator(o)
        /\ (Key(o)') = Key(o)
  BY DEF InsertLead, Delivering, Creator, At, Key, IntakeTypeOK
<1>5. Delivering(h)' /\ ((Creator(h)') = new)
  BY <1>3 DEF Delivering, Creator, At
<1>6. /\ \A k \in LeadKeys : Exists(k)' <=> (Exists(k) \/ k = Key(h))
      /\ UNCHANGED <<audits, announced, accepted, disturbed>>
  <2>1. NewLead(Form(h), handler[h].duplicate) # NoLead
    BY <1>2, NewLeadIsLead, LeadIsNotNone DEF Delivery
  <2>. QED  BY <1>2, <2>1 DEF InsertLead, Exists, IntakeTypeOK
<1>7. CreatorsHaveInserted'
  <2>1. \A o \in Handlers : handler[o].pc \in {"audit", "push"} => Key(o) \in LeadKeys
    BY AtDelivering, DeliveryKnown
  <2>. QED
    BY <1>2, <1>3, <1>4, <1>5, <1>6, <2>1 DEF AnnounceInv, CreatorsHaveInserted, At
<1>8. AuditsHaveLeads'
  <2>1. \A w \in Webhooks : KeyOf(w) \in LeadKeys
    BY IntakeAssumption DEF KeyOf, Forms, LeadKeys
  <2>. QED  BY <1>6, <2>1 DEF AnnounceInv, AuditsHaveLeads, IntakeTypeOK
<1>9. AnnouncedByCreator'
  <2>1. new => \A o \in Handlers : Creator(o) => Key(o) # Key(h)
    BY DEF AnnounceInv, CreatorsHaveInserted, Exists
  <2>2. new => announced[Key(h)] = 0
    BY <1>2 DEF AnnounceInv, AnnouncedByCreator, Exists
  <2>3. ASSUME NEW f \in Handlers, Creator(f)', NEW o \in Handlers, Creator(o)',
               (Key(f)') = Key(o)'
        PROVE  announced'[Key(f)'] = 0 /\ o = f
    <3>1. CASE f = h \/ o = h
      <4>1. new
        BY <1>5, <2>3, <3>1
      <4>2. (Key(f)') = Key(h) /\ (Key(o)') = Key(h)
        BY <1>3, <2>3, <3>1
      <4>3. f = h /\ o = h
        BY <1>4, <2>1, <2>3, <4>1, <4>2
      <4>. QED  BY <1>6, <2>2, <4>1, <4>2, <4>3
    <3>2. CASE f # h /\ o # h
      <4>1. Delivering(f) /\ Key(f) \in LeadKeys
        BY <1>4, <2>3, <3>2, DeliveryKnown DEF Creator
      <4>. QED
        BY <1>4, <1>6, <2>3, <3>2, <4>1 DEF AnnounceInv, AnnouncedByCreator
    <3>. QED  BY <3>1, <3>2
  <2>4. \A k \in LeadKeys : announced'[k] <= 1 /\ (~(Exists(k)') => announced'[k] = 0)
    BY <1>6 DEF AnnounceInv, AnnouncedByCreator
  <2>. QED  BY <2>3, <2>4 DEF AnnouncedByCreator
<1>10. LeadsAreCovered'
  BY <1>1, <1>3, <1>4, <1>5, <1>6 DEF AnnounceInv, LeadsAreCovered, Exists
<1>11. OverlapsAreNoted'
  <2>1. new => handler[h].webhook \notin audits
    BY <1>2 DEF AnnounceInv, AuditsHaveLeads, Exists
  <2>2. \A o \in Handlers : handler'[o].webhook = handler[o].webhook
    BY <1>3, <1>4
  <2>. QED
    BY <1>1, <1>3, <1>4, <1>5, <1>6, <2>1, <2>2 DEF AnnounceInv, OverlapsAreNoted, At
<1>. QED  BY <1>7, <1>8, <1>9, <1>10, <1>11 DEF AnnounceInv

\* The audit lets the creator push, unless another delivery made the row.
LEMMA AuditAnnounces ==
    ASSUME IntakeTypeOK, IntakeTypeOK', AnnounceInv, NEW h \in Handlers, RecordAudit(h)
    PROVE  AnnounceInv'
<1>. DEFINE w == handler[h].webhook
<1>1. Delivering(h) /\ handler[h].pc = "audit"
  BY AtDelivering DEF RecordAudit, At
<1>2. handler[h] \in Delivery /\ Key(h) \in LeadKeys /\ w \in Webhooks
        /\ Key(h) = KeyOf(w) /\ Exists(Key(h))
  BY <1>1, DeliveryKnown DEF AnnounceInv, CreatorsHaveInserted
<1>3. \A o \in Handlers \ {h} :
        /\ handler'[o] = handler[o]
        /\ (Delivering(o)') = Delivering(o)
        /\ (Creator(o)') = Creator(o)
        /\ (Key(o)') = Key(o)
  BY DEF RecordAudit, Goto, Finish, Delivering, Creator, At, Key, IntakeTypeOK
<1>4. /\ \A k : (Exists(k)') = Exists(k)
      /\ UNCHANGED <<announced, disturbed>>
      /\ audits' = audits \cup {w} /\ accepted' \subseteq accepted \cup {w}
  BY DEF RecordAudit, Exists
<1>5. CASE w \notin audits /\ handler[h].created
  <2>1. /\ handler'[h].pc = "push" /\ handler'[h].created
        /\ handler'[h].webhook = w
        /\ (Key(h)') = Key(h)
        /\ handler'[h] # NoWork
    BY <1>2, <1>5 DEF RecordAudit, Goto, Delivery, IntakeTypeOK, Key, Form, NoWork
  <2>2. Delivering(h)' /\ Creator(h)' /\ Creator(h)
    BY <1>1, <1>5, <2>1 DEF Delivering, Creator, At
  <2>3. CreatorsHaveInserted'
    BY <1>2, <1>3, <1>4, <2>1, <2>2 DEF AnnounceInv, CreatorsHaveInserted, At
  <2>4. AuditsHaveLeads'
    BY <1>2, <1>4 DEF AnnounceInv, AuditsHaveLeads
  <2>5. AnnouncedByCreator'
    BY <1>3, <1>4, <2>1, <2>2 DEF AnnounceInv, AnnouncedByCreator
  <2>6. LeadsAreCovered'
    BY <1>3, <1>4, <2>1, <2>2 DEF AnnounceInv, LeadsAreCovered
  <2>7. OverlapsAreNoted'
    <3>1. \A f \in Handlers : handler'[f].webhook = handler[f].webhook
                               /\ ((Delivering(f)') = Delivering(f))
                               /\ ((Key(f)') = Key(f))
      BY <1>1, <1>3, <2>1, <2>2 DEF Delivering
    <3>2. ASSUME NEW o \in Handlers, At(o, "audit")', handler'[o].created,
                 handler'[o].webhook \in audits'
          PROVE  (Key(o)') \in disturbed'
      <4>1. o # h /\ At(o, "audit") /\ handler[o].created
        BY <1>3, <2>1, <3>2 DEF At
      <4>2. Delivering(o)
        BY <4>1, AtDelivering DEF At
      <4>. QED
        BY <1>1, <1>4, <3>1, <3>2, <4>1, <4>2 DEF AnnounceInv, OverlapsAreNoted
    <3>. QED  BY <1>4, <3>1, <3>2 DEF AnnounceInv, OverlapsAreNoted
  <2>. QED  BY <2>3, <2>4, <2>5, <2>6, <2>7 DEF AnnounceInv
<1>6. CASE ~(w \notin audits /\ handler[h].created)
  <2>1. handler'[h] = NoWork
    BY <1>6 DEF RecordAudit, Finish, IntakeTypeOK
  <2>2. ~(Delivering(h)') /\ ~(Creator(h)') /\ handler'[h].pc = "idle"
    BY <2>1 DEF Delivering, Creator, NoWork
  <2>3. Creator(h) => Key(h) \in disturbed
    BY <1>1, <1>6 DEF AnnounceInv, OverlapsAreNoted, Creator, At
  <2>4. CreatorsHaveInserted'
    BY <1>3, <1>4, <2>2 DEF AnnounceInv, CreatorsHaveInserted, At
  <2>5. AuditsHaveLeads'
    BY <1>2, <1>4 DEF AnnounceInv, AuditsHaveLeads
  <2>6. AnnouncedByCreator'
    BY <1>3, <1>4, <2>2 DEF AnnounceInv, AnnouncedByCreator
  <2>7. LeadsAreCovered'
    BY <1>3, <1>4, <2>3 DEF AnnounceInv, LeadsAreCovered
  <2>8. OverlapsAreNoted'
    <3>1. ASSUME NEW o \in Handlers, At(o, "audit")', handler'[o].created,
                 handler'[o].webhook \in audits'
          PROVE  (Key(o)') \in disturbed'
      <4>1. o # h /\ At(o, "audit") /\ handler[o].created
        BY <1>3, <2>2, <3>1 DEF At
      <4>2. Delivering(o)
        BY <4>1, AtDelivering DEF At
      <4>. QED
        BY <1>1, <1>3, <1>4, <3>1, <4>1, <4>2 DEF AnnounceInv, OverlapsAreNoted
    <3>. QED  BY <1>3, <1>4, <2>2, <3>1 DEF AnnounceInv, OverlapsAreNoted
  <2>. QED  BY <2>4, <2>5, <2>6, <2>7, <2>8 DEF AnnounceInv
<1>. QED  BY <1>5, <1>6

\* A creator that stops, after its push or without it, leaves its lead covered.
LEMMA FinishAnnounces ==
    ASSUME IntakeTypeOK, IntakeTypeOK', AnnounceInv, NEW h \in Handlers,
           PushCaptured(h) \/ (Fail(h) /\ Creator(h))
    PROVE  AnnounceInv'
<1>1. Delivering(h) /\ Creator(h)
  BY AtDelivering
     DEF PushCaptured, At, Creator, AnnounceInv, CreatorsHaveInserted
<1>2. handler[h] \in Delivery /\ Key(h) \in LeadKeys
        /\ handler[h].webhook \in Webhooks /\ Key(h) = KeyOf(handler[h].webhook)
        /\ Exists(Key(h)) /\ announced[Key(h)] = 0
  BY <1>1, DeliveryKnown DEF AnnounceInv, CreatorsHaveInserted, AnnouncedByCreator
<1>3. \A o \in Handlers \ {h} :
        /\ handler'[o] = handler[o]
        /\ (Delivering(o)') = Delivering(o)
        /\ (Creator(o)') = Creator(o)
        /\ (Key(o)') = Key(o)
  BY DEF PushCaptured, Fail, Finish, Delivering, Creator, At, Key, IntakeTypeOK
<1>4. handler'[h] = NoWork
  BY DEF PushCaptured, Fail, Finish, IntakeTypeOK
<1>5. ~(Delivering(h)') /\ ~(Creator(h)') /\ handler'[h].pc = "idle"
  BY <1>4 DEF Delivering, Creator, NoWork
<1>6. /\ \A k : (Exists(k)') = Exists(k)
      /\ audits' = audits /\ accepted' \subseteq accepted \cup {handler[h].webhook}
      /\ disturbed \subseteq disturbed'
      /\ \A k \in LeadKeys \ {Key(h)} : announced'[k] = announced[k]
      /\ announced'[Key(h)] \in {0, 1}
      /\ announced'[Key(h)] = 1 \/ Key(h) \in disturbed'
  BY <1>1, <1>2 DEF PushCaptured, Fail, Exists, IntakeTypeOK, Creator
<1>7. CreatorsHaveInserted'
  BY <1>3, <1>5, <1>6 DEF AnnounceInv, CreatorsHaveInserted, At
<1>8. AuditsHaveLeads'
  BY <1>2, <1>6 DEF AnnounceInv, AuditsHaveLeads
<1>9. AnnouncedByCreator'
  <2>1. \A o \in Handlers : Creator(o)' => Key(o)' # Key(h)
    BY <1>1, <1>2, <1>3, <1>5 DEF AnnounceInv, AnnouncedByCreator
  <2>. QED
    BY <1>2, <1>3, <1>5, <1>6, <2>1 DEF AnnounceInv, AnnouncedByCreator
<1>10. LeadsAreCovered'
  <2>1. ASSUME NEW k \in LeadKeys, Exists(k)', k # Key(h)
        PROVE  announced'[k] > 0 \/ k \in disturbed'
                 \/ \E o \in Handlers : Creator(o)' /\ (Key(o)') = k
    BY <1>3, <1>6, <2>1 DEF AnnounceInv, LeadsAreCovered
  <2>. QED  BY <1>6, <2>1 DEF LeadsAreCovered
<1>11. OverlapsAreNoted'
  BY <1>3, <1>5, <1>6 DEF AnnounceInv, OverlapsAreNoted, At
<1>. QED  BY <1>7, <1>8, <1>9, <1>10, <1>11 DEF AnnounceInv

LEMMA AnnounceStep ==
    ASSUME IntakeTypeOK, AnnounceInv, [IntakeNext]_vars
    PROVE  AnnounceInv'
<1>0. IntakeTypeOK'
  BY IntakeTypeStep
<1>1. ASSUME NEW h \in Handlers, NEW w \in Webhooks, Deliver(h, w)
      PROVE  AnnounceInv'
  <2>1. handler'[h].pc = "suppression" /\ handler'[h].created = FALSE
          /\ handler'[h].webhook = w
    BY <1>1 DEF Deliver, IntakeTypeOK
  <2>2. ~Creator(h) /\ ~(Creator(h)') /\ ~Delivering(h)
    BY <1>1, <2>1 DEF Deliver, Creator, Delivering
  <2>3. \A o \in Handlers \ {h} : handler'[o] = handler[o]
    BY <1>1 DEF Deliver, IntakeTypeOK
  <2>4. \A o \in Handlers \ {h} :
           Delivering(o) /\ handler[o].webhook = handler'[h].webhook
              => Key(o) \in disturbed'
    BY <1>1, <2>1, DeliveryKnown DEF Deliver
  <2>5. disturbed \subseteq disturbed' /\ UNCHANGED <<leads, audits, announced, accepted>>
    BY <1>1 DEF Deliver
  <2>. QED  BY <1>0, <2>1, <2>2, <2>3, <2>4, <2>5, QuietSlot
<1>2. ASSUME NEW h \in Handlers, CheckSuppression(h) \/ CheckDuplicate(h)
      PROVE  AnnounceInv'
  <2>1. Delivering(h) /\ ~Creator(h)
    BY <1>2, AtDelivering
       DEF CheckSuppression, CheckDuplicate, At, AnnounceInv, CreatorsHaveInserted
  <2>2. handler[h] \in Delivery
    BY <2>1, DeliveryKnown
  <2>3. \/ handler'[h] = NoWork
        \/ /\ handler'[h].pc \in {"duplicate", "insert"}
           /\ handler'[h].created = handler[h].created
           /\ handler'[h].webhook = handler[h].webhook
    BY <1>2, <2>2 DEF CheckSuppression, CheckDuplicate, Finish, Goto, Delivery,
                      IntakeTypeOK
  <2>4. handler'[h].pc \notin {"audit", "push"} /\ ~(Creator(h)')
          /\ ((Delivering(h)') => handler'[h].webhook = handler[h].webhook)
    BY <2>1, <2>3 DEF Creator, Delivering, NoWork
  <2>5. \A o \in Handlers \ {h} : handler'[o] = handler[o]
    BY <1>2 DEF CheckSuppression, CheckDuplicate, Finish, Goto, IntakeTypeOK
  <2>6. disturbed \subseteq disturbed' /\ UNCHANGED <<leads, audits, announced, accepted>>
    BY <1>2 DEF CheckSuppression, CheckDuplicate
  <2>. QED  BY <1>0, <2>1, <2>4, <2>5, <2>6, QuietSlot
<1>3. ASSUME NEW h \in Handlers, InsertLead(h) PROVE AnnounceInv'
  BY <1>0, <1>3, InsertAnnounces
<1>4. ASSUME NEW h \in Handlers, RecordAudit(h) PROVE AnnounceInv'
  BY <1>0, <1>4, AuditAnnounces
<1>5. ASSUME NEW h \in Handlers, PushCaptured(h) PROVE AnnounceInv'
  BY <1>0, <1>5, FinishAnnounces
<1>6. ASSUME NEW h \in Handlers, Fail(h) \/ InsertEntry(h) PROVE AnnounceInv'
  <2>1. CASE Fail(h) /\ Creator(h)
    BY <1>0, <2>1, FinishAnnounces
  <2>2. CASE ~Creator(h)
    <3>1. handler'[h] = NoWork /\ \A o \in Handlers \ {h} : handler'[o] = handler[o]
      BY <1>6 DEF Fail, InsertEntry, Finish, IntakeTypeOK
    <3>2. ~(Creator(h)') /\ ~(Delivering(h)') /\ handler'[h].pc \notin {"audit", "push"}
      BY <3>1 DEF Creator, Delivering, NoWork
    <3>3. disturbed \subseteq disturbed' /\ UNCHANGED <<leads, audits, announced, accepted>>
      BY <1>6 DEF Fail, InsertEntry
    <3>. QED  BY <1>0, <2>2, <3>1, <3>2, <3>3, QuietSlot
  <2>3. CASE InsertEntry(h)
    BY <2>2, <2>3 DEF InsertEntry, Creator, Delivering
  <2>. QED  BY <1>6, <2>1, <2>2, <2>3
<1>7. ASSUME NEW h \in Handlers, NEW c \in Contacts, FindEntry(h, c)
      PROVE  AnnounceInv'
  <2>1. ~Creator(h)
    BY <1>7 DEF FindEntry, Creator, Delivering
  <2>2. handler'[h].pc \in {"idle", "entry"}
          /\ (handler'[h] = NoWork \/ handler'[h].pc = "entry")
    BY <1>7 DEF FindEntry, IntakeTypeOK, NoWork
  <2>3. ~(Creator(h)') /\ ~(Delivering(h)')
    BY <2>2 DEF Creator, Delivering, At
  <2>4. \A o \in Handlers \ {h} : handler'[o] = handler[o]
    BY <1>7 DEF FindEntry, IntakeTypeOK
  <2>5. UNCHANGED <<leads, audits, announced, accepted, disturbed>>
    BY <1>7 DEF FindEntry
  <2>. QED  BY <1>0, <2>1, <2>2, <2>3, <2>4, <2>5, QuietSlot
<1>8. ASSUME NEW k \in LeadKeys, Age(k) PROVE AnnounceInv'
  <2>1. \A l \in LeadKeys : (Exists(l)') = Exists(l)
    <3>1. leads[k] \in Lead
      BY <1>8 DEF Age, IntakeTypeOK, NoLead
    <3>2. [leads[k] EXCEPT !.recent = FALSE] \in Lead
      BY <3>1 DEF Lead
    <3>. QED  BY <1>8, <3>1, <3>2, LeadIsNotNone DEF Age, Exists, IntakeTypeOK
  <2>2. /\ \A h : /\ (Delivering(h)') = Delivering(h)
                  /\ (Creator(h)') = Creator(h)
                  /\ (Key(h)') = Key(h)
        /\ UNCHANGED <<handler, audits, announced, accepted, disturbed>>
    BY <1>8 DEF Age, Delivering, Creator, Key, At, Form
  <2>3. \A h \in Handlers : handler[h].pc \in {"audit", "push"} => Key(h) \in LeadKeys
    BY AtDelivering, DeliveryKnown
  <2>4. \A w \in Webhooks : KeyOf(w) \in LeadKeys
    BY IntakeAssumption DEF KeyOf, Forms, LeadKeys
  <2>5. CreatorsHaveInserted' /\ AuditsHaveLeads'
    BY <2>1, <2>2, <2>3, <2>4
       DEF AnnounceInv, CreatorsHaveInserted, AuditsHaveLeads, At, IntakeTypeOK
  <2>6. AnnouncedByCreator' /\ LeadsAreCovered' /\ OverlapsAreNoted'
    BY <2>1, <2>2
       DEF AnnounceInv, AnnouncedByCreator, LeadsAreCovered, OverlapsAreNoted, At
  <2>. QED  BY <2>5, <2>6 DEF AnnounceInv
<1>9. CASE UNCHANGED vars
  BY <1>9 DEF vars, AnnounceInv, CreatorsHaveInserted, AuditsHaveLeads,
              AnnouncedByCreator, LeadsAreCovered, OverlapsAreNoted, Creator,
              Delivering, Exists, At, Key, Form
<1>. QED
  BY <1>1, <1>2, <1>3, <1>4, <1>5, <1>6, <1>7, <1>8, <1>9 DEF IntakeNext

LEMMA AnnounceInit == IntakeInit => AnnounceInv
BY DEF IntakeInit, AnnounceInv, CreatorsHaveInserted, AuditsHaveLeads,
       AnnouncedByCreator, LeadsAreCovered, OverlapsAreNoted, Creator,
       Delivering, Exists, At, NoWork

LEMMA AnnounceAlways == IntakeSpec => [](IntakeTypeOK /\ AnnounceInv)
<1>1. IntakeInit => IntakeTypeOK /\ AnnounceInv
  BY IntakeTypeInit, AnnounceInit
<1>2. IntakeTypeOK /\ AnnounceInv /\ [IntakeNext]_vars => (IntakeTypeOK /\ AnnounceInv)'
  BY IntakeTypeStep, AnnounceStep
<1>. QED  BY <1>1, <1>2, PTL DEF IntakeSpec

\* lead.captured is pushed once at most for a lead, for any number of repeated
\* and overlapping deliveries of its form, failures and forms alike.
THEOREM CapturedIsAnnouncedOnce == IntakeSpec => []AnnouncedOnce
<1>1. AnnounceInv => AnnouncedOnce
  BY DEF AnnounceInv, AnnouncedByCreator, AnnouncedOnce
<1>. QED  BY <1>1, AnnounceAlways, PTL

\* A failure between the insert and the push, or overlapping deliveries of one
\* webhook, are the only ways to accept a form and not announce its lead.
THEOREM OnlyDisturbancesLoseLeads == IntakeSpec => []AnnouncedUnlessDisturbed
<1>1. ASSUME IntakeTypeOK, AnnounceInv, Idle, NEW w \in accepted
      PROVE  announced[KeyOf(w)] > 0 \/ KeyOf(w) \in disturbed
  <2>1. Exists(KeyOf(w))
    BY <1>1 DEF AnnounceInv, AuditsHaveLeads
  <2>2. KeyOf(w) \in LeadKeys
    BY <1>1, IntakeAssumption DEF KeyOf, Forms, LeadKeys, IntakeTypeOK
  <2>3. \A h \in Handlers : ~Creator(h)
    BY <1>1 DEF Idle, Creator, Delivering
  <2>. QED  BY <1>1, <2>1, <2>2, <2>3 DEF AnnounceInv, LeadsAreCovered
<1>2. IntakeTypeOK /\ AnnounceInv => AnnouncedUnlessDisturbed
  BY <1>1 DEF AnnouncedUnlessDisturbed
<1>. QED  BY <1>2, AnnounceAlways, PTL

-----------------------------------------------------------------------------
(* Which leads are blocked.                                                *)

Unblocked(k) == leads[k].recent /\ ~leads[k].blocked

\* A handler that found no duplicate and has not inserted its lead yet is
\* still right, unless another one of its phone passed the check too.
ChecksAreFresh ==
    \A h \in Handlers : At(h, "insert") /\ Form(h).phone \notin raced =>
        /\ handler[h].duplicate \/ RecentLeads(Form(h).phone) = {}
        /\ \A o \in Handlers :
              At(o, "insert") /\ Form(o).phone = Form(h).phone => o = h

UnblockedIsUnique ==
    \A p \in Phones \ raced : \A f, g \in Pages :
        Unblocked(<<p, f>>) /\ Unblocked(<<p, g>>) => f = g

BlockInv == ChecksAreFresh /\ UnblockedIsUnique

\* A step that neither enters nor leaves the insert, nor touches a lead.
LEMMA QuietCheck ==
    ASSUME BlockInv, NEW h \in Handlers,
           \A o \in Handlers \ {h} : handler'[o] = handler[o],
           handler'[h].pc # "insert", UNCHANGED <<leads, raced>>
    PROVE  BlockInv'
<1>1. \A p : (RecentLeads(p)') = RecentLeads(p)
  BY DEF RecentLeads
<1>2. \A o \in Handlers : At(o, "insert")' =>
         o # h /\ At(o, "insert") /\ handler'[o] = handler[o] /\ (Form(o)') = Form(o)
  BY DEF At, Form
<1>3. ChecksAreFresh'
  BY <1>1, <1>2 DEF BlockInv, ChecksAreFresh
<1>4. UnblockedIsUnique'
  BY DEF BlockInv, UnblockedIsUnique, Unblocked
<1>. QED  BY <1>3, <1>4 DEF BlockInv

LEMMA CheckBlocks ==
    ASSUME IntakeTypeOK, BlockInv, NEW h \in Handlers, CheckDuplicate(h)
    PROVE  BlockInv'
<1>. DEFINE p == Form(h).phone
<1>1. handler[h] \in Delivery
  BY AtDelivering, DeliveryKnown DEF CheckDuplicate, At
<1>2. /\ handler'[h].duplicate = (RecentLeads(p) # {})
      /\ (Form(h)') = Form(h)
      /\ \A o \in Handlers \ {h} : handler'[o] = handler[o] /\ (Form(o)') = Form(o)
      /\ \A q : (RecentLeads(q)') = RecentLeads(q)
      /\ raced \subseteq raced'
  BY <1>1 DEF CheckDuplicate, Delivery, IntakeTypeOK, Form, RecentLeads
<1>3. p \notin raced' => \A o \in Handlers \ {h} : ~(At(o, "insert") /\ Form(o).phone = p)
  BY DEF CheckDuplicate
<1>4. ASSUME NEW f \in Handlers, At(f, "insert")', (Form(f)').phone \notin raced'
      PROVE  /\ handler'[f].duplicate \/ RecentLeads(Form(f).phone)' = {}
             /\ \A o \in Handlers :
                   At(o, "insert")' /\ (Form(o)').phone = (Form(f)').phone => o = f
  <2>1. CASE f = h
    BY <1>2, <1>3, <1>4, <2>1 DEF At
  <2>2. CASE f # h
    BY <1>2, <1>3, <1>4, <2>2 DEF At, BlockInv, ChecksAreFresh
  <2>. QED  BY <2>1, <2>2
<1>5. ChecksAreFresh'
  BY <1>4 DEF ChecksAreFresh
<1>6. UnblockedIsUnique'
  BY <1>2 DEF CheckDuplicate, BlockInv, UnblockedIsUnique, Unblocked
<1>. QED  BY <1>5, <1>6 DEF BlockInv

LEMMA InsertBlocks ==
    ASSUME IntakeTypeOK, BlockInv, NEW h \in Handlers, InsertLead(h)
    PROVE  BlockInv'
<1>. DEFINE p == Form(h).phone
            new == NewLead(Form(h), handler[h].duplicate)
<1>1. /\ handler[h] \in Delivery /\ Key(h) \in LeadKeys
      /\ Key(h) = <<p, Form(h).page>>
      /\ p \in Phones /\ Form(h).page \in Pages
      /\ At(h, "insert")
  BY AtDelivering, DeliveryKnown DEF InsertLead, At, Key, KeyOf, Form, Forms
<1>2. /\ handler'[h].pc = "audit"
      /\ \A o \in Handlers \ {h} : handler'[o] = handler[o] /\ (Form(o)') = Form(o)
      /\ raced' = raced
  BY <1>1 DEF InsertLead, Delivery, IntakeTypeOK, Form
<1>3. /\ \A k \in LeadKeys : k # Key(h) => leads'[k] = leads[k]
      /\ leads'[Key(h)] = leads[Key(h)] \/ leads'[Key(h)] = new
      /\ new.blocked = handler[h].duplicate
  BY <1>1 DEF InsertLead, IntakeTypeOK, NewLead
<1>4. \A q \in Phones : q # p => (RecentLeads(q)') = RecentLeads(q)
  BY <1>1, <1>3 DEF RecentLeads, LeadKeys
<1>5. ChecksAreFresh'
  <2>1. ASSUME NEW f \in Handlers, At(f, "insert")', (Form(f)').phone \notin raced'
        PROVE  /\ handler'[f].duplicate \/ RecentLeads(Form(f).phone)' = {}
               /\ \A o \in Handlers :
                     At(o, "insert")' /\ (Form(o)').phone = (Form(f)').phone => o = f
    <3>1. f # h /\ At(f, "insert") /\ handler'[f] = handler[f] /\ (Form(f)') = Form(f)
      BY <1>2, <2>1 DEF At
    <3>2. Form(f).phone # p /\ Form(f).phone \in Phones
      BY <1>1, <1>2, <2>1, <3>1, AtDelivering, DeliveryKnown
         DEF BlockInv, ChecksAreFresh, At, Forms
    <3>3. (RecentLeads(Form(f).phone)') = RecentLeads(Form(f).phone)
      BY <1>1, <1>3, <3>1, <3>2 DEF RecentLeads, LeadKeys
    <3>4. \A o \in Handlers : At(o, "insert")' =>
             o # h /\ At(o, "insert") /\ (Form(o)') = Form(o)
      BY <1>2 DEF At
    <3>. QED  BY <1>2, <2>1, <3>1, <3>3, <3>4 DEF BlockInv, ChecksAreFresh
  <2>. QED  BY <2>1 DEF ChecksAreFresh
<1>6. UnblockedIsUnique'
  <2>1. ASSUME NEW q \in Phones \ raced', NEW f \in Pages, NEW g \in Pages,
               Unblocked(<<q, f>>)', Unblocked(<<q, g>>)', f # g
        PROVE  FALSE
    <3>1. <<q, f>> \in LeadKeys /\ <<q, g>> \in LeadKeys
      BY DEF LeadKeys
    <3>2. CASE Unblocked(<<q, f>>) /\ Unblocked(<<q, g>>)
      BY <1>2, <2>1, <3>2 DEF BlockInv, UnblockedIsUnique
    <3>3. CASE ~(Unblocked(<<q, f>>) /\ Unblocked(<<q, g>>))
      <4>1. PICK e \in {f, g} : ~Unblocked(<<q, e>>)
        BY <3>3
      <4>2. <<q, e>> = Key(h) /\ leads'[Key(h)] = new
        BY <1>3, <2>1, <3>1, <4>1 DEF Unblocked
      <4>3. q = p /\ e = Form(h).page
        BY <1>1, <4>2
      <4>4. ~handler[h].duplicate
        BY <1>3, <2>1, <4>2, <4>1 DEF Unblocked
      <4>5. RecentLeads(p) = {}
        BY <1>1, <1>2, <2>1, <4>3, <4>4 DEF BlockInv, ChecksAreFresh
      <4>6. PICK d \in {f, g} : d # e
        BY <2>1
      <4>7. <<q, d>> # Key(h)
        BY <1>1, <4>3, <4>6
      <4>8. leads[<<q, d>>].recent
        BY <1>3, <2>1, <3>1, <4>6, <4>7 DEF Unblocked
      <4>. QED  BY <4>3, <4>5, <4>6, <4>8 DEF RecentLeads
    <3>. QED  BY <3>2, <3>3
  <2>. QED  BY <2>1 DEF UnblockedIsUnique
<1>. QED  BY <1>5, <1>6 DEF BlockInv

LEMMA AgeBlocks ==
    ASSUME IntakeTypeOK, BlockInv, NEW k \in LeadKeys, Age(k)
    PROVE  BlockInv'
<1>1. leads[k] \in Lead
  BY DEF Age, IntakeTypeOK, NoLead
<1>2. /\ ~leads'[k].recent
      /\ \A l \in LeadKeys : l # k => leads'[l] = leads[l]
      /\ UNCHANGED <<handler, raced>>
  BY <1>1 DEF Age, IntakeTypeOK, Lead
<1>3. \A p \in Phones : (RecentLeads(p)') \subseteq RecentLeads(p)
  BY <1>2 DEF RecentLeads, LeadKeys
<1>4. \A l \in LeadKeys : Unblocked(l)' => Unblocked(l)
  BY <1>2 DEF Unblocked
<1>5. ChecksAreFresh'
  <2>1. \A h \in Handlers : /\ (Form(h)') = Form(h)
                            /\ At(h, "insert")' <=> At(h, "insert")
                            /\ At(h, "insert") => Form(h).phone \in Phones
    BY <1>2, AtDelivering, DeliveryKnown DEF Form, At, Forms
  <2>2. ASSUME NEW h \in Handlers, At(h, "insert"), RecentLeads(Form(h).phone) = {}
        PROVE  (RecentLeads(Form(h).phone)') = {}
    <3>1. (Form(h)') = Form(h) /\ Form(h).phone \in Phones
      BY <2>1, <2>2
    <3>. QED  BY <1>2, <2>2, <3>1 DEF RecentLeads, LeadKeys
  <2>. QED  BY <1>2, <2>1, <2>2 DEF BlockInv, ChecksAreFresh
<1>6. UnblockedIsUnique'
  BY <1>2, <1>4 DEF BlockInv, UnblockedIsUnique, LeadKeys
<1>. QED  BY <1>5, <1>6 DEF BlockInv

LEMMA BlockStep ==
    ASSUME IntakeTypeOK, BlockInv, [IntakeNext]_vars
    PROVE  BlockInv'
<1>1. ASSUME NEW h \in Handlers, NEW w \in Webhooks, Deliver(h, w)
      PROVE  BlockInv'
  BY <1>1, QuietCheck DEF Deliver, IntakeTypeOK
<1>2. ASSUME NEW h \in Handlers, CheckSuppression(h) PROVE BlockInv'
  <2>1. handler[h] \in Delivery
    BY <1>2, AtDelivering, DeliveryKnown DEF CheckSuppression, At
  <2>2. handler'[h].pc \in {"idle", "duplicate"}
    BY <1>2, <2>1 DEF CheckSuppression, Finish, Goto, Delivery, IntakeTypeOK, NoWork
  <2>. QED  BY <1>2, <2>2, QuietCheck DEF CheckSuppression, Finish, Goto, IntakeTypeOK
<1>3. ASSUME NEW h \in Handlers, RecordAudit(h) PROVE BlockInv'
  <2>1. handler[h] \in Delivery
    BY <1>3, AtDelivering, DeliveryKnown DEF RecordAudit, At
  <2>2. handler'[h].pc \in {"idle", "push"}
    BY <1>3, <2>1 DEF RecordAudit, Finish, Goto, Delivery, IntakeTypeOK, NoWork
  <2>. QED  BY <1>3, <2>2, QuietCheck DEF RecordAudit, Finish, Goto, IntakeTypeOK
<1>4. ASSUME NEW h \in Handlers, PushCaptured(h) \/ Fail(h) \/ InsertEntry(h)
      PROVE  BlockInv'
  <2>1. handler' = [handler EXCEPT ![h] = NoWork] /\ UNCHANGED <<leads, raced>>
    BY <1>4 DEF PushCaptured, Fail, InsertEntry, Finish
  <2>2. handler'[h].pc # "insert" /\ \A o \in Handlers \ {h} : handler'[o] = handler[o]
    BY <2>1 DEF IntakeTypeOK, NoWork
  <2>. QED  BY <2>1, <2>2, QuietCheck
<1>5. ASSUME NEW h \in Handlers, NEW c \in Contacts, FindEntry(h, c)
      PROVE  BlockInv'
  BY <1>5, QuietCheck DEF FindEntry, IntakeTypeOK, NoWork
<1>6. CASE UNCHANGED vars
  BY <1>6 DEF vars, BlockInv, ChecksAreFresh, UnblockedIsUnique, Unblocked,
              RecentLeads, At, Form
<1>. QED
  BY <1>1, <1>2, <1>3, <1>4, <1>5, <1>6, CheckBlocks, InsertBlocks, AgeBlocks
     DEF IntakeNext

LEMMA BlockInit == IntakeInit => BlockInv
BY DEF IntakeInit, BlockInv, ChecksAreFresh, UnblockedIsUnique, Unblocked, At,
       NoWork, NoLead, LeadKeys

\* Of the leads a phone sends within the duplicate window one at most is not
\* blocked, for any number of forms, pages and handlers, unless two of its forms
\* were past the duplicate check at a time.
THEOREM DuplicatesAreBlocked == IntakeSpec => []OneUnblockedLead
<1>1. IntakeInit => IntakeTypeOK /\ BlockInv
  BY IntakeTypeInit, BlockInit
<1>2. IntakeTypeOK /\ BlockInv /\ [IntakeNext]_vars => (IntakeTypeOK /\ BlockInv)'
  BY IntakeTypeStep, BlockStep
<1>3. BlockInv => OneUnblockedLead
  <2>. SUFFICES ASSUME BlockInv, NEW p \in Phones \ raced
                PROVE  Cardinality({g \in RecentLeads(p) : ~leads[<<p, g>>].blocked}) <= 1
    BY DEF OneUnblockedLead
  <2>. DEFINE open == {g \in RecentLeads(p) : ~leads[<<p, g>>].blocked}
  <2>1. \A f, g \in open : f = g
    BY DEF BlockInv, UnblockedIsUnique, Unblocked, RecentLeads
  <2>2. Cardinality(open) <= 1
    <3>. HIDE DEF open
    <3>1. CASE open = {}
      <4>1. Cardinality(open) = 0
        BY <3>1, FS_EmptySet
      <4>. QED  BY <4>1
    <3>2. CASE open # {}
      <4>1. PICK g : open = {g}
        BY <2>1, <3>2
      <4>2. Cardinality({g}) = 1
        BY FS_Singleton
      <4>. QED  BY <4>1, <4>2
    <3>. QED  BY <3>1, <3>2
  <2>. QED  BY <2>2 DEF open
<1>. QED  BY <1>1, <1>2, <1>3, PTL DEF IntakeSpec

-----------------------------------------------------------------------------
(* Which opt-outs are honoured.                                            *)

Both(c) == c.phone # NoPhone /\ c.email # NoEmail

\* An opt-out of a phone, or of an email address, has its entry.
SinglesAreListed ==
    \A c \in optedOut :
        ~Both(c) => \E e \in suppressed : \A d \in Forms : Matches(c, d) => Matches(e, d)

\* A handler knows nothing but opt-outs that match its form, and past the
\* suppression check only opt-outs of both.
HandlersKnowOptOuts ==
    \A h \in Handlers : Delivering(h) =>
        /\ \A c \in handler[h].known : c \in optedOut /\ Matches(c, Form(h))
        /\ handler[h].pc \in {"duplicate", "insert"} =>
              \A c \in handler[h].known : Both(c)

OptOutInv == SinglesAreListed /\ HandlersKnowOptOuts /\ SingleOptOutHonoured

\* A step of a slot that learns nothing, or stops.
LEMMA QuietKnown ==
    ASSUME OptOutInv, NEW h \in Handlers,
           \A o \in Handlers \ {h} : handler'[o] = handler[o],
           (Delivering(h)') => /\ Delivering(h)
                               /\ handler'[h].webhook = handler[h].webhook
                               /\ handler'[h].known = handler[h].known
                               /\ handler'[h].pc \in {"duplicate", "insert"} =>
                                     handler[h].pc \in {"duplicate", "insert"},
           optedOut \subseteq optedOut'
    PROVE  HandlersKnowOptOuts'
<1>1. ASSUME NEW o \in Handlers, Delivering(o)'
      PROVE  /\ \A c \in handler'[o].known : c \in optedOut' /\ Matches(c, Form(o)')
             /\ handler'[o].pc \in {"duplicate", "insert"} =>
                   \A c \in handler'[o].known : Both(c)
  <2>1. /\ Delivering(o) /\ (Form(o)') = Form(o)
        /\ handler'[o].known = handler[o].known
        /\ handler'[o].pc \in {"duplicate", "insert"} =>
              handler[o].pc \in {"duplicate", "insert"}
    BY <1>1 DEF Delivering, At, Form
  <2>. QED  BY <2>1 DEF OptOutInv, HandlersKnowOptOuts
<1>. QED  BY <1>1 DEF HandlersKnowOptOuts

\* An opt-out of one thing is covered by any entry it matches.
LEMMA SingleCovered ==
    ASSUME NEW c \in Contacts, NEW e, Matches(e, c), ~Both(c), NEW d, Matches(c, d)
    PROVE  Matches(e, d)
BY DEF Contacts, Matches, Both

LEMMA OptOutStep ==
    ASSUME IntakeTypeOK, OptOutInv, [IntakeNext]_vars
    PROVE  OptOutInv'
<1>1. ASSUME NEW h \in Handlers, NEW w \in Webhooks, Deliver(h, w)
      PROVE  OptOutInv'
  <2>1. UNCHANGED <<optedOut, suppressed, disregarded>>
    BY <1>1 DEF Deliver
  <2>2. HandlersKnowOptOuts'
    <3>1. /\ handler'[h].known = {c \in optedOut : Matches(c, FormOf[w])}
          /\ handler'[h].pc = "suppression"
          /\ (Form(h)') = FormOf[w]
      BY <1>1 DEF Deliver, IntakeTypeOK, Form
    <3>2. \A o \in Handlers \ {h} : handler'[o] = handler[o]
                                     /\ ((Delivering(o)') => Delivering(o))
                                     /\ (Form(o)') = Form(o)
      BY <1>1 DEF Deliver, IntakeTypeOK, Delivering, At, Form
    <3>. QED  BY <2>1, <3>1, <3>2 DEF OptOutInv, HandlersKnowOptOuts
  <2>. QED  BY <2>1, <2>2 DEF OptOutInv, SinglesAreListed, SingleOptOutHonoured
<1>2. ASSUME NEW h \in Handlers, CheckSuppression(h) PROVE OptOutInv'
  <2>1. Delivering(h) /\ handler[h] \in Delivery /\ Form(h) \in Forms
    BY <1>2, AtDelivering, DeliveryKnown DEF CheckSuppression, At
  <2>2. UNCHANGED <<optedOut, suppressed, disregarded>>
          /\ \A o \in Handlers \ {h} : handler'[o] = handler[o]
    BY <1>2 DEF CheckSuppression, Finish, Goto, IntakeTypeOK
  <2>3. HandlersKnowOptOuts'
    <3>1. CASE \E e \in suppressed : Matches(e, Form(h))
      <4>1. handler'[h] = NoWork
        BY <1>2, <3>1 DEF CheckSuppression, Finish, IntakeTypeOK
      <4>2. ~(Delivering(h)')
        BY <4>1 DEF Delivering
      <4>. QED  BY <2>2, <4>2, QuietKnown
    <3>2. CASE ~\E e \in suppressed : Matches(e, Form(h))
      <4>1. /\ handler'[h].known = handler[h].known
            /\ (Form(h)') = Form(h)
        BY <1>2, <2>1, <3>2 DEF CheckSuppression, Goto, IntakeTypeOK, Delivery, Form
      <4>2. \A c \in handler[h].known : Both(c)
        BY <2>1, <3>2 DEF OptOutInv, HandlersKnowOptOuts, SinglesAreListed
      <4>3. \A o \in Handlers \ {h} : ((Delivering(o)') => Delivering(o))
                                       /\ (Form(o)') = Form(o)
        BY <2>2 DEF Delivering, At, Form
      <4>. QED
        BY <2>1, <2>2, <4>1, <4>2, <4>3 DEF OptOutInv, HandlersKnowOptOuts
    <3>. QED  BY <3>1, <3>2
  <2>. QED  BY <2>2, <2>3 DEF OptOutInv, SinglesAreListed, SingleOptOutHonoured
<1>3. ASSUME NEW h \in Handlers, CheckDuplicate(h) \/ InsertLead(h) \/ RecordAudit(h)
      PROVE  OptOutInv'
  <2>1. Delivering(h) /\ handler[h] \in Delivery
    BY <1>3, AtDelivering, DeliveryKnown
       DEF CheckDuplicate, InsertLead, RecordAudit, At
  <2>2. UNCHANGED <<optedOut, suppressed>>
          /\ \A o \in Handlers \ {h} : handler'[o] = handler[o]
    BY <1>3 DEF CheckDuplicate, InsertLead, RecordAudit, Finish, Goto, IntakeTypeOK
  <2>3. \/ handler'[h] = NoWork
        \/ /\ handler'[h].webhook = handler[h].webhook
           /\ handler'[h].known = handler[h].known
           /\ handler'[h].pc \in {"duplicate", "insert"} =>
                 handler[h].pc \in {"duplicate", "insert"}
    BY <1>3, <2>1 DEF CheckDuplicate, InsertLead, RecordAudit, Finish, Goto,
                      IntakeTypeOK, Delivery, At
  <2>4. HandlersKnowOptOuts'
    BY <2>1, <2>2, <2>3, QuietKnown DEF Delivering
  <2>5. SingleOptOutHonoured'
    <3>1. CASE InsertLead(h)
      <4>1. \A c \in handler[h].known : Both(c)
        BY <2>1, <3>1 DEF InsertLead, At, OptOutInv, HandlersKnowOptOuts
      <4>2. disregarded' \subseteq disregarded \cup ({handler[h].webhook} \X handler[h].known)
        BY <3>1 DEF InsertLead
      <4>. QED  BY <4>1, <4>2 DEF OptOutInv, SingleOptOutHonoured, Both
    <3>2. CASE CheckDuplicate(h) \/ RecordAudit(h)
      BY <3>2 DEF CheckDuplicate, RecordAudit, OptOutInv, SingleOptOutHonoured
    <3>. QED  BY <1>3, <3>1, <3>2
  <2>. QED  BY <2>2, <2>4, <2>5 DEF OptOutInv, SinglesAreListed
<1>4. ASSUME NEW h \in Handlers, PushCaptured(h) \/ Fail(h) PROVE OptOutInv'
  <2>1. /\ handler' = [handler EXCEPT ![h] = NoWork]
        /\ UNCHANGED <<optedOut, suppressed, disregarded>>
    BY <1>4 DEF PushCaptured, Fail, Finish
  <2>2. handler'[h] = NoWork /\ \A o \in Handlers \ {h} : handler'[o] = handler[o]
    BY <2>1 DEF IntakeTypeOK
  <2>3. HandlersKnowOptOuts'
    BY <2>1, <2>2, QuietKnown DEF Delivering
  <2>. QED  BY <2>1, <2>3 DEF OptOutInv, SinglesAreListed, SingleOptOutHonoured
<1>5. ASSUME NEW h \in Handlers, NEW c \in Contacts, FindEntry(h, c)
      PROVE  OptOutInv'
  <2>1. /\ \A o \in Handlers \ {h} : handler'[o] = handler[o]
        /\ handler'[h] = NoWork \/ handler'[h].pc = "entry"
        /\ UNCHANGED <<suppressed, disregarded>>
        /\ optedOut \subseteq optedOut'
    BY <1>5 DEF FindEntry, IntakeTypeOK
  <2>2. HandlersKnowOptOuts'
    BY <2>1, QuietKnown DEF Delivering, At
  <2>3. SinglesAreListed'
    <3>1. ASSUME NEW b \in optedOut', ~Both(b)
          PROVE  \E e \in suppressed : \A d \in Forms : Matches(b, d) => Matches(e, d)
      <4>1. CASE b \in optedOut
        BY <3>1, <4>1 DEF OptOutInv, SinglesAreListed
      <4>2. CASE b \notin optedOut
        <5>1. b = c /\ \E e \in suppressed : Matches(e, c)
          BY <1>5, <3>1, <4>2 DEF FindEntry
        <5>. QED  BY <3>1, <5>1, SingleCovered
      <4>. QED  BY <4>1, <4>2
    <3>. QED  BY <2>1, <3>1 DEF SinglesAreListed
  <2>. QED  BY <2>1, <2>2, <2>3 DEF OptOutInv, SingleOptOutHonoured
<1>6. ASSUME NEW h \in Handlers, InsertEntry(h) PROVE OptOutInv'
  <2>1. /\ handler'[h] = NoWork /\ \A o \in Handlers \ {h} : handler'[o] = handler[o]
        /\ suppressed' = suppressed \cup {handler[h].contact}
        /\ optedOut' = optedOut \cup {handler[h].contact}
        /\ disregarded' = disregarded
    BY <1>6 DEF InsertEntry, Finish, IntakeTypeOK
  <2>2. HandlersKnowOptOuts'
    BY <2>1, QuietKnown DEF Delivering
  <2>3. SinglesAreListed'
    BY <2>1 DEF OptOutInv, SinglesAreListed
  <2>. QED  BY <2>1, <2>2, <2>3 DEF OptOutInv, SingleOptOutHonoured
<1>7. ASSUME NEW k \in LeadKeys, Age(k) PROVE OptOutInv'
  BY <1>7 DEF Age, OptOutInv, SinglesAreListed, HandlersKnowOptOuts,
              SingleOptOutHonoured, Delivering, At, Form
<1>8. CASE UNCHANGED vars
  BY <1>8 DEF vars, OptOutInv, SinglesAreListed, HandlersKnowOptOuts,
              SingleOptOutHonoured, Delivering, At, Form
<1>. QED
  BY <1>1, <1>2, <1>3, <1>4, <1>5, <1>6, <1>7, <1>8 DEF IntakeNext

\* An opt-out of a phone or of an email address is honoured by every form that
\* arrives after it, in any interleaving of forms and opt-outs.
THEOREM SingleOptOutsAreHonoured == IntakeSpec => []SingleOptOutHonoured
<1>1. IntakeInit => IntakeTypeOK /\ OptOutInv
  <2>1. IntakeInit => OptOutInv
    BY DEF IntakeInit, OptOutInv, SinglesAreListed, HandlersKnowOptOuts,
           SingleOptOutHonoured, Delivering
  <2>. QED  BY <2>1, IntakeTypeInit
<1>2. IntakeTypeOK /\ OptOutInv /\ [IntakeNext]_vars => (IntakeTypeOK /\ OptOutInv)'
  BY IntakeTypeStep, OptOutStep
<1>3. OptOutInv => SingleOptOutHonoured
  BY DEF OptOutInv
<1>. QED  BY <1>1, <1>2, <1>3, PTL DEF IntakeSpec

\* No interleaving of opt-outs leaves two entries to one contact.
THEOREM EntriesStayDistinct == IntakeSpec => []EntriesDistinct
<1>1. IntakeInit => EntriesDistinct
  BY DEF IntakeInit, EntriesDistinct
<1>2. EntriesDistinct /\ [IntakeNext]_vars => EntriesDistinct'
  <2>. SUFFICES ASSUME EntriesDistinct, [IntakeNext]_vars PROVE EntriesDistinct'
    OBVIOUS
  <2>1. ASSUME NEW h \in Handlers, InsertEntry(h) PROVE EntriesDistinct'
    <3>1. \A c, d : Matches(c, d) => Matches(d, c)
      BY DEF Matches
    <3>. QED  BY <2>1, <3>1 DEF InsertEntry, EntriesDistinct
  <2>2. CASE UNCHANGED suppressed
    BY <2>2 DEF EntriesDistinct
  <2>. QED
    BY <2>1, <2>2 DEF IntakeNext, vars, Deliver, CheckSuppression, CheckDuplicate,
       InsertLead, RecordAudit, PushCaptured, Fail, FindEntry, Age
<1>. QED  BY <1>1, <1>2, PTL DEF IntakeSpec

=============================================================================
