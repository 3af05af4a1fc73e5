------------------------------- MODULE Domain -------------------------------
(***************************************************************************)
(* Domains and the names of objects (mp_domain.c): a domain lies in another*)
(* one, up to the kernel domain; objects and domains have names that are   *)
(* unique in their domain and are found through a table of hash keys; and a*)
(* protected object may be used only by tasks of its domain or below it.   *)
(*                                                                         *)
(* The domain part of an ID is the number of the control block of the      *)
(* domain an object is in: <<domain, control block>>.  Tasks are objects,  *)
(* and those that call.                                                    *)
(***************************************************************************)
EXTENDS Integers, SequencesExt

CONSTANTS
  MaxDom,   \* NUM_DOMID - 1: the domains besides that of the kernel
  ObjIdx,   \* the control blocks of each type of objects
  Names,    \* the object names, without the empty one
  Hash,     \* the hash value of each
  Atrs,     \* what each type is created with: [oname, patr], see Unnamed
  NOEXS,    \* the content of a control block that is free
  ObjType,  \* the types of objects that are used, "TSK" among them
  MaxType,  \* bound: the types of which there are objects at a time
  MaxObj,   \* bound: MaxObj[type], the objects and domains when one of the type is created
  Forced     \* whether tk_fdel_dom is used on domains that are not empty

ASSUME DomAssumption ==
  /\ MaxDom \in Nat \ {0} /\ "" \notin Names /\ DOMAIN Hash = Names
  /\ ObjIdx \subseteq Nat \ {0} /\ Forced \in BOOLEAN
  /\ "TSK" \in ObjType
  /\ ObjType \subseteq {"TSK", "SEM", "FLG", "MBX", "MTX", "MBF", "POR", "MPF", "MPL", "CYC", "ALM"}

VARIABLES
  domcb,      \* the domains: NOEXS, or [dom, named, oname, objcnt]
  free_domcb, \* the free control blocks, in their order
  objcb,      \* of each type: NOEXS, or [dom, named, oname, patr]
  hashcb      \* of each type, the key of each control block, or NoKey

domvars == <<domcb, free_domcb, objcb, hashcb>>

MP_KDMID == 0
Slot == MP_KDMID..MaxDom
NoKey == <<>>
Unnamed == "none" \* of Atrs: without TA_ONAME

Idx(type) == IF type = "DOM" THEN Slot ELSE ObjIdx
CB(type, i) == IF type = "DOM" THEN domcb[i] ELSE objcb[type][i]

(* The ID of what a control block is used for, and the control blocks an ID*)
(* names: none after the deletion, unless the next one there is created in *)
(* the same domain.                                                        *)
ObjId(type, i) == <<CB(type, i).dom, i>>
MP_CMP_DOMIDPART(id, obj) == id[1] = obj.dom
Known_AnyDomain(type, id) == {i \in Idx(type) : i = id[2] /\ CB(type, i) # NOEXS}
Known(type, id) ==
  {i \in Idx(type) : i = id[2] /\ CB(type, i) # NOEXS /\ MP_CMP_DOMIDPART(id, CB(type, i))}

(* mp_domain_initialize *)
DomInit ==
  /\ domcb = [s \in Slot |->
       IF s = MP_KDMID THEN [dom |-> MP_KDMID, named |-> FALSE, oname |-> "", objcnt |-> 0]
       ELSE NOEXS]
  /\ free_domcb = [s \in 1..MaxDom |-> s]
  /\ objcb = [type \in ObjType |-> [i \in ObjIdx |-> NOEXS]]
  /\ hashcb = [type \in ObjType \cup {"DOM"} |-> [i \in Idx(type) |-> NoKey]]

-----------------------------------------------------------------------------
(* Names *)

Key(dom, oname) == IF oname = "" THEN NoKey ELSE <<dom, Hash[oname]>>

(* The control blocks with that name: none, or the one that is found. *)
search_hashcb_KeyOnly(type, dom, oname) ==
  {i \in Idx(type) : oname # "" /\ hashcb[type][i] = Key(dom, oname)}
search_hashcb(type, dom, oname) ==
  {i \in Idx(type) :
     /\ oname # "" /\ hashcb[type][i] = Key(dom, oname)
     /\ CB(type, i).oname = oname}

mp_existence_check_of_oname(type, dom, oname) == search_hashcb(type, dom, oname) = {}

mp_existence_check_of_domain(dom) == domcb[dom] # NOEXS

(* What tk_fnd_xxx looks up: a set with the control block, or empty. *)
mp_search_oname(type, dom, oname) ==
  IF mp_existence_check_of_domain(dom) THEN search_hashcb(type, dom, oname) ELSE {}

-----------------------------------------------------------------------------
(* Protection *)

(* mp_get_domid_from_id: of a domain that was deleted, no ID. *)
NoDom == -1
DomidOf(s) == IF s # NoDom /\ domcb[s] = NOEXS THEN NoDom ELSE s
DomainAbove(s) == IF s \in {NoDom, MP_KDMID} THEN MP_KDMID ELSE DomidOf(domcb[s].dom)

(* The domains trace_domain_for_pchk goes through from that of a task, at  *)
(* most until they repeat.                                                 *)
Trace(dom) ==
  LET At[n \in 0..MaxDom + 2] == IF n = 0 THEN DomidOf(dom) ELSE DomainAbove(At[n - 1])
  IN  At

trace_domain_for_pchk(dom, patr, tskdom) ==
  \E n \in DOMAIN Trace(tskdom) :
    /\ Trace(tskdom)[n] = dom
    /\ n > 0 => patr = "PROTECTED"
    /\ \A m \in 0..n - 1 : Trace(tskdom)[m] # MP_KDMID

(* The caller c: a task's control block, or Exempt, which stands for a     *)
(* handler and for tasks of a protection level that is not checked.        *)
Exempt == 0
Caller == {Exempt} \cup {t \in ObjIdx : objcb["TSK"][t] # NOEXS}

mp_check_protection_cre(c, dom, patr) ==
  IF patr = "PUBLIC" \/ c = Exempt THEN TRUE
  ELSE trace_domain_for_pchk(dom, patr, objcb["TSK"][c].dom)

mp_check_protection_fnd(c, obj) ==
  IF obj.patr = "PUBLIC" \/ c = Exempt THEN TRUE
  ELSE trace_domain_for_pchk(DomidOf(obj.dom), obj.patr, objcb["TSK"][c].dom)

mp_check_domain_and_protection(c, id, obj) ==
  MP_CMP_DOMIDPART(id, obj) /\ mp_check_protection_fnd(c, obj)

-----------------------------------------------------------------------------
(* Objects *)

mp_register_object_in_domain(cbs, dom, type, i, oname) ==
  /\ domcb' = [cbs EXCEPT ![dom].objcnt = @ + 1]
  /\ hashcb' = [hashcb EXCEPT ![type][i] = Key(dom, oname)]

(* The count of the domain's control block, whoever has it now. *)
mp_unregister_object_in_domain(cbs, dom, type, i) ==
  /\ domcb' = IF cbs[dom] = NOEXS THEN cbs ELSE [cbs EXCEPT ![dom].objcnt = @ - 1]
  /\ hashcb' = [hashcb EXCEPT ![type][i] = NoKey]

Name(a) == IF a.oname = Unnamed THEN "" ELSE a.oname

(* tk_cre_tsk, tk_cre_mtx and the like, in this respect. *)
_tk_cre_obj(c, type, i, dom, a) ==
  /\ objcb[type][i] = NOEXS
  /\ mp_existence_check_of_domain(dom)
  /\ mp_existence_check_of_oname(type, dom, Name(a))
  /\ mp_check_protection_cre(c, dom, a.patr)
  /\ objcb' = [objcb EXCEPT ![type][i] =
       [dom |-> dom, named |-> a.oname # Unnamed, oname |-> Name(a), patr |-> a.patr]]
  /\ mp_register_object_in_domain(domcb, dom, type, i, Name(a))
  /\ UNCHANGED free_domcb

_tk_del_obj(c, type, id) == LET i == id[2] IN
  /\ objcb[type][i] # NOEXS
  /\ type = "TSK" => c # i
  /\ mp_check_domain_and_protection(c, id, objcb[type][i])
  /\ mp_unregister_object_in_domain(domcb, objcb[type][i].dom, type, i)
  /\ objcb' = [objcb EXCEPT ![type][i] = NOEXS]
  /\ UNCHANGED free_domcb

(* Whatever the other names in the domain are. *)
mp_change_oname_Unchecked(type, i, oname) ==
  /\ CB(type, i) # NOEXS /\ CB(type, i).named
  /\ hashcb' = [hashcb EXCEPT ![type][i] = Key(CB(type, i).dom, oname)]

(* td_set_dsname: the empty name may be given to several. *)
mp_change_oname(type, i, oname) ==
  /\ CB(type, i) # NOEXS /\ CB(type, i).named
  /\ DomidOf(CB(type, i).dom) # NoDom
  /\ mp_existence_check_of_oname(type, CB(type, i).dom, oname)
  /\ hashcb' = [hashcb EXCEPT ![type][i] = Key(CB(type, i).dom, oname)]

object_setname(type, id, oname) == \E i \in Known(type, id) :
  /\ mp_change_oname(type, i, oname)
  /\ objcb' = [objcb EXCEPT ![type][i].oname = oname]
  /\ UNCHANGED <<domcb, free_domcb>>

(* Of an object without a name (E_OBJ) or an ID of nothing, no name. *)
object_getname(type, id) ==
  {CB(type, i).oname : i \in {j \in Known(type, id) : CB(type, j).named}}

-----------------------------------------------------------------------------
(* Domains *)

_tk_cre_dom(dom, a) ==
  LET s == Head(free_domcb)
      cb == [dom |-> dom, named |-> a.oname # Unnamed, oname |-> Name(a), objcnt |-> 0]
  IN
  /\ free_domcb # <<>>
  /\ mp_existence_check_of_domain(dom)
  /\ mp_existence_check_of_oname("DOM", dom, Name(a))
  /\ free_domcb' = Tail(free_domcb)
  /\ mp_register_object_in_domain([domcb EXCEPT ![s] = cb], dom, "DOM", s, Name(a))
  /\ UNCHANGED objcb

DeleteDomain(s) ==
  /\ mp_unregister_object_in_domain([domcb EXCEPT ![s] = NOEXS], domcb[s].dom, "DOM", s)
  /\ free_domcb' = Append(free_domcb, s)
  /\ UNCHANGED objcb

_tk_del_dom(s) ==
  /\ s # MP_KDMID /\ domcb[s] # NOEXS /\ domcb[s].objcnt = 0
  /\ DeleteDomain(s)

(* What is in the domain stays. *)
_tk_fdel_dom(s) ==
  /\ s # MP_KDMID /\ domcb[s] # NOEXS
  /\ ~Forced => domcb[s].objcnt = 0
  /\ DeleteDomain(s)

domain_setname(s, oname) ==
  /\ s # MP_KDMID
  /\ mp_change_oname("DOM", s, oname)
  /\ domcb' = [domcb EXCEPT ![s].oname = oname]
  /\ UNCHANGED <<free_domcb, objcb>>

_tk_ref_dom(s) == [domid |-> DomidOf(domcb[s].dom), objcnt |-> domcb[s].objcnt]
_td_lst_dom == {s \in Slot \ {MP_KDMID} : domcb[s] # NOEXS}

Objects == {o \in ObjType \X ObjIdx : objcb[o[1]][o[2]] # NOEXS}
MoreObjects(type) ==
  /\ Cardinality(_td_lst_dom) + Cardinality(Objects) < MaxObj[type]
  /\ Cardinality(({o[1] : o \in Objects} \cup {type, "TSK"}) \ {"DOM"}) <= MaxType

DomNext ==
  \/ \E type \in ObjType :
       \/ /\ MoreObjects(type)
          /\ \E c \in Caller, i \in ObjIdx, dom \in Slot, a \in Atrs[type] :
               _tk_cre_obj(c, type, i, dom, a)
       \/ \E c \in Caller, i \in ObjIdx, dom \in Slot : _tk_del_obj(c, type, <<dom, i>>)
       \/ \E id \in Slot \X ObjIdx, oname \in Names \cup {""} : object_setname(type, id, oname)
  \/ MoreObjects("DOM") /\ \E dom \in Slot, a \in Atrs["DOM"] : _tk_cre_dom(dom, a)
  \/ \E s \in Slot :
       \/ _tk_del_dom(s)
       \/ _tk_fdel_dom(s)
       \/ \E oname \in Names \cup {""} : domain_setname(s, oname)

DomSpec == DomInit /\ [][DomNext]_domvars

-----------------------------------------------------------------------------
(* The objects and domains in the domain s. *)
Members(s) ==
  {o \in Objects : objcb[o[1]][o[2]].dom = s}
    \cup {<<"DOM", d>> : d \in {x \in _td_lst_dom : domcb[x].dom = s}}

(* Every domain lies, through others, in the kernel domain.  Otherwise the *)
(* protection check runs in a circle, inside the critical section.         *)
DomainsAreAHierarchy ==
  \A s \in Slot : domcb[s] # NOEXS => \E n \in DOMAIN Trace(s) : Trace(s)[n] = MP_KDMID

(* An object is in a domain that exists, and counted there. *)
CountsExact == \A s \in Slot :
  IF domcb[s] = NOEXS THEN Members(s) = {}
  ELSE Cardinality(Members(s)) = _tk_ref_dom(s).objcnt

(* By its name an object is found, and no other one. *)
NamesFound == \A s \in Slot : \A m \in Members(s) :
  \A oname \in object_getname(m[1], ObjId(m[1], m[2])) \ {""} :
    mp_search_oname(m[1], s, oname) = {m[2]}

(* The tasks that may use an object are those of its domain and, if it is  *)
(* only protected, those below; the kernel's tasks use only its objects.   *)
Below[s \in Slot] == {d \in Slot : domcb[d] # NOEXS /\ \E n \in DOMAIN Trace(d) : Trace(d)[n] = s}
ProtectionExact == \A t \in Caller \ {Exempt}, o \in Objects :
  LET obj == objcb[o[1]][o[2]]
      tsk == objcb["TSK"][t]
  IN  (mp_check_protection_fnd(t, obj) <=>
           CASE obj.patr = "PUBLIC" -> TRUE
             [] obj.patr = "PRIVATE" -> tsk.dom = obj.dom
             [] obj.patr = "PROTECTED" -> tsk.dom \in Below[obj.dom])

FreeDomainsExact ==
  /\ ToSet(free_domcb) = {s \in Slot : domcb[s] = NOEXS} /\ IsInjective(free_domcb)

(* While only empty domains are deleted, domains are a hierarchy, know     *)
(* what is in them, and names and protection work.                         *)
DomainsConsistent ==
  /\ DomainsAreAHierarchy /\ CountsExact /\ NamesFound /\ ProtectionExact /\ FreeDomainsExact

=============================================================================
