---------------------------- MODULE AioManagerInv ----------------------------
(***************************************************************************)
(* The inductive invariant of AioManager: where a request can be, and what *)
(* its fields, its descriptors and its destination are there.              *)
(***************************************************************************)
EXTENDS AioManager

Returned == ring \cup events

\* An issued request is somewhere, and nothing else is anywhere.
Somewhere ==
  /\ \A r \in issued :
       \/ r \in adding \cup ToSet(read_head) \cup iocbs \cup ToSet(write_head) \cup freed
       \/ \E x \in Known : x.req = r
  /\ adding \cup ToSet(read_head) \cup iocbs \cup ToSet(write_head) \cup freed \subseteq issued
  /\ \A x \in Known : x.req \in issued

\* Among the requests of one stage no two places overlap, and none holds a
\* request twice; requests of different stages are told apart by Stages.
Apart ==
  /\ IsInjective(read_head) /\ IsInjective(write_head)
  /\ adding \cap ToSet(read_head) = {}
  /\ iocbs \cap (ToSet(write_head) \cup freed) = {}
  /\ \A x \in Known : x.req \notin iocbs \cup ToSet(write_head) \cup freed

\* The kernel has at most one operation of a request.
OneOperation ==
  /\ \A x, y \in inflight : x.req = y.req => x = y
  /\ \A x, y \in Returned : x.req = y.req => x = y
  /\ \A x \in inflight, y \in Returned : x.req # y.req
  /\ ring \cap events = {}

\* The field state follows the places.
Stages ==
  /\ \A r \in (Req \ issued) \cup adding \cup ToSet(read_head) : state[r] = 0
  /\ \A r \in ToSet(write_head) : state[r] = 1
  /\ \A r \in freed : state[r] = 2
  /\ \A r \in iocbs : state[r] = IF aio_pc = "read" THEN 1 ELSE 2
  /\ DispatchByState

\* What fsize and buffer hold.
Buffers ==
  /\ \A r \in Req : state[r] # 0 => fsize[r] = ToInt(st_size[r])
  /\ \A r \in Req : state[r] = 2 \/ r \in ToSet(write_head) =>
       buffer[r] = fsize[r] /\ fsize[r] >= 0
  /\ \A x \in Known : fsize[x.req] >= 0
  /\ \A x \in Returned :
       x.op = "read" /\ x.res = fsize[x.req] => buffer[x.req] = fsize[x.req]

\* A destination before open, and after the write of the whole buffer.
Fresh(r) == [same |-> 0, len |-> old_len[r]]
Whole(r) == Written(Created(Fresh(r)), fsize[r], fsize[r])

Destinations ==
  /\ \A r \in Req : state[r] # 2 => dst[r] = Fresh(r)
  /\ \A r \in iocbs : state[r] = 2 => dst[r] = Created(Fresh(r))
  /\ \A x \in inflight : x.op = "write" => dst[x.req] = Created(Fresh(x.req))
  /\ \A x \in Returned :
       x.op = "write" /\ x.res = fsize[x.req] => dst[x.req] = Whole(x.req)
  /\ \A r \in freed : dst[r] = Whole(r)

Descriptors ==
  /\ open_src = {r \in issued : state[r] = 1 /\ r \notin ToSet(write_head)}
  /\ open_dst = {r \in issued : state[r] = 2 /\ r \notin freed}

Counts ==
  /\ req_count = Cardinality(issued)
  /\ request_count =
       IF adding = {} \/ main_pc = "add_push" THEN req_count ELSE req_count - 1
  /\ finished_count = Cardinality(freed)
  /\ ListLengths

Mutexes ==
  /\ request_mutex = "main" <=> main_pc \in {"add_count", "add_push"}
  /\ request_mutex = "aio" <=> aio_pc \in {"read", "unlock_request"}
  /\ flush_mutex = "main" <=> main_pc = "wait_set"
  /\ flush_mutex = "aio" <=> aio_pc \notin {"lock_flush", "done"}

Control ==
  /\ adding # {} <=> main_pc \in {"add_lock", "add_count", "add_push"}
  /\ main_pc = "add_push" => rest = read_head
  /\ flush => main_pc \in {"join", "destroy", "exit"}
  /\ main_pc \in {"destroy", "exit"} => aio_pc = "done"
  /\ status = "success" => main_pc = "exit"
  /\ aio_pc = "done" => flush /\ freed = issued
  /\ aio_pc # "handle" => events = {}
  /\ aio_pc \notin {"read", "write"} => iocbs = {}

\* The invariant that every step preserves: together with the types it implies
\* the safety invariants of AioManager.
IndInv ==
  /\ TypeOK /\ Somewhere /\ Apart /\ OneOperation /\ Stages /\ Buffers
  /\ Destinations /\ Descriptors /\ Counts /\ Mutexes /\ Control
=============================================================================
