----------------------------- MODULE Directory ------------------------------
(***************************************************************************)
(* How objects are found: by a name with tk_fnd_xxx, by an ID with         *)
(* tk_dmi_xxx, and by the debugger with td_lst_xxx, td_ref_xxx, td_fnd_xxx,*)
(* td_dmi_xxx and the names of all types (objname.c).  Every type of       *)
(* objects has these calls in its own file; they read the control blocks   *)
(* and the hash keys of Domain in one critical section each.               *)
(***************************************************************************)
EXTENDS Domain

Dmi(obj) == [domid |-> DomidOf(obj.dom), oname |-> obj.oname]

(* By the name and by the ID, for the caller c: what is found, or nothing. *)
Find(type, c, dom, oname, id) ==
  [fnd |-> {ObjId(type, i) : i \in {j \in mp_search_oname(type, dom, oname) :
                                      mp_check_protection_fnd(c, CB(type, j))}},
   dmi |-> {Dmi(CB(type, i)) : i \in {j \in Known(type, id) :
                                      mp_check_domain_and_protection(c, id, CB(type, j))}}]

(* The calls of the debugger, whom nothing is protected from. *)
Debug(type, dom, oname, id) ==
  [getname |-> object_getname(type, id),
   lst |-> {ObjId(type, i) : i \in {j \in Idx(type) : CB(type, j) # NOEXS}},
   ref |-> Known(type, id),
   fnd |-> {ObjId(type, i) : i \in mp_search_oname(type, dom, oname)},
   dmi |-> {Dmi(CB(type, i)) : i \in Known(type, id)}]

semaphore_find(c, dom, oname, id) == Find("SEM", c, dom, oname, id)
semaphore_debug(dom, oname, id) == Debug("SEM", dom, oname, id)

eventflag_find(c, dom, oname, id) == Find("FLG", c, dom, oname, id)
eventflag_debug(dom, oname, id) == Debug("FLG", dom, oname, id)

mailbox_find(c, dom, oname, id) == Find("MBX", c, dom, oname, id)
mailbox_debug(dom, oname, id) == Debug("MBX", dom, oname, id)

mutex_find(c, dom, oname, id) == Find("MTX", c, dom, oname, id)
mutex_debug(dom, oname, id) == Debug("MTX", dom, oname, id)

messagebuffer_find(c, dom, oname, id) == Find("MBF", c, dom, oname, id)
messagebuffer_debug(dom, oname, id) == Debug("MBF", dom, oname, id)

rendezvous_find(c, dom, oname, id) == Find("POR", c, dom, oname, id)
rendezvous_debug(dom, oname, id) == Debug("POR", dom, oname, id)

fix_memorypool_find(c, dom, oname, id) == Find("MPF", c, dom, oname, id)
fix_memorypool_debug(dom, oname, id) == Debug("MPF", dom, oname, id)

memorypool_find(c, dom, oname, id) == Find("MPL", c, dom, oname, id)
memorypool_debug(dom, oname, id) == Debug("MPL", dom, oname, id)

cyclichandler_find(c, dom, oname, id) == Find("CYC", c, dom, oname, id)
cyclichandler_debug(dom, oname, id) == Debug("CYC", dom, oname, id)

alarmhandler_find(c, dom, oname, id) == Find("ALM", c, dom, oname, id)
alarmhandler_debug(dom, oname, id) == Debug("ALM", dom, oname, id)

(* A task may name itself with TSK_SELF: that is not checked. *)
TSK_SELF == "TSK_SELF"
task_find(c, dom, oname, id) ==
  IF id # TSK_SELF THEN Find("TSK", c, dom, oname, id)
  ELSE [fnd |-> {}, dmi |-> IF c = Exempt THEN {} ELSE {Dmi(objcb["TSK"][c])}]
task_debug(dom, oname, id) == Debug("TSK", dom, oname, id)

(* Domains are not protected. *)
domain_find(c, dom, oname, id) ==
  [fnd |-> Debug("DOM", dom, oname, id).fnd, dmi |-> Debug("DOM", dom, oname, id).dmi]
domain_debug(dom, oname, id) ==
  [Debug("DOM", dom, oname, id) EXCEPT !.lst = {ObjId("DOM", s) : s \in _td_lst_dom}]

FindCall(type, c, dom, oname, id) ==
  CASE type = "TSK" -> task_find(c, dom, oname, id)
    [] type = "SEM" -> semaphore_find(c, dom, oname, id)
    [] type = "FLG" -> eventflag_find(c, dom, oname, id)
    [] type = "MBX" -> mailbox_find(c, dom, oname, id)
    [] type = "MTX" -> mutex_find(c, dom, oname, id)
    [] type = "MBF" -> messagebuffer_find(c, dom, oname, id)
    [] type = "POR" -> rendezvous_find(c, dom, oname, id)
    [] type = "MPF" -> fix_memorypool_find(c, dom, oname, id)
    [] type = "MPL" -> memorypool_find(c, dom, oname, id)
    [] type = "CYC" -> cyclichandler_find(c, dom, oname, id)
    [] type = "ALM" -> alarmhandler_find(c, dom, oname, id)
    [] type = "DOM" -> domain_find(c, dom, oname, id)

DebugCall(type, dom, oname, id) ==
  CASE type = "TSK" -> task_debug(dom, oname, id)
    [] type = "SEM" -> semaphore_debug(dom, oname, id)
    [] type = "FLG" -> eventflag_debug(dom, oname, id)
    [] type = "MBX" -> mailbox_debug(dom, oname, id)
    [] type = "MTX" -> mutex_debug(dom, oname, id)
    [] type = "MBF" -> messagebuffer_debug(dom, oname, id)
    [] type = "POR" -> rendezvous_debug(dom, oname, id)
    [] type = "MPF" -> fix_memorypool_debug(dom, oname, id)
    [] type = "MPL" -> memorypool_debug(dom, oname, id)
    [] type = "CYC" -> cyclichandler_debug(dom, oname, id)
    [] type = "ALM" -> alarmhandler_debug(dom, oname, id)
    [] type = "DOM" -> domain_debug(dom, oname, id)

-----------------------------------------------------------------------------
(* Of a type without objects nothing is found.                             *)
TypesInUse == {o[1] : o \in Objects} \cup {"DOM"}
AnyId(type, dom) == {dom} \X Idx(type)

(* What a caller finds by a name (tk_fnd_xxx, mp_domain.c:242) is what it  *)
(* may ask about: it lies where it was looked for and has that name; what  *)
(* the debugger finds there and the caller does not is refused to it.      *)
FoundIsUsable ==
  \A type \in TypesInUse, c \in Caller, dom \in Slot, oname \in Names :
    LET Got(id) == FindCall(type, c, dom, oname, id)
        found == DebugCall(type, dom, oname, <<dom, dom>>).fnd
    IN  \A id \in found :
          IF id \in Got(id).fnd
            THEN Got(id).dmi = {[domid |-> DomidOf(dom), oname |-> oname]}
            ELSE Got(id).dmi = {}

(* The lists of the debugger are the objects the domains count, and each of*)
(* them is found by its name, and an ID of an object that was deleted is   *)
(* refused by every call (MP_CMP_DOMIDPART, mp_domain.h:68).               *)
ListsAgree ==
  /\ \A dom \in Slot : domcb[dom] # NOEXS =>
       Cardinality(UNION {{<<type, id>> : id \in DebugCall(type, dom, "", <<dom, dom>>).lst
                                                   \cap AnyId(type, dom)} : type \in TypesInUse})
         = _tk_ref_dom(dom).objcnt
  /\ \A type \in TypesInUse, dom \in Slot : \A id \in AnyId(type, dom) :
       LET call(oname) == DebugCall(type, id[1], oname, id)
           listed == id \in call("").lst \cup {ObjId("DOM", MP_KDMID)}
       IN  IF listed
             THEN \A oname \in call("").getname \ {""} : call(oname).fnd = {id}
             ELSE call("").ref = {} /\ call("").getname = {}
                    /\ \A oname \in Names : id \notin call(oname).fnd

=============================================================================
