----------------------------- MODULE MCDataPlane -----------------------------
(***************************************************************************)
(* Small instances of DataPlane. Host 1 talks to port 80 of host 2 over    *)
(* two connections, host 3 over one. The lengths sit on the boundary: 54   *)
(* and 458 bytes make exactly one window of 512, 511 bytes just do not.    *)
(***************************************************************************)
EXTENDS DataPlane

Conn(src, sport) == [src_ip |-> src, dst_ip |-> 2, src_port |-> sport, dst_port |-> 80]
FrameOf(conn, len, sig) ==
    [src_ip |-> conn.src_ip, dst_ip |-> conn.dst_ip, src_port |-> conn.src_port,
     dst_port |-> conn.dst_port, len |-> len, sig |-> sig]

MCFrames ==
    {FrameOf(Conn(1, 1001), 54, TRUE), FrameOf(Conn(1, 1001), 600, FALSE),
     FrameOf(Conn(1, 1002), 458, FALSE), FrameOf(Conn(3, 1001), 511, TRUE)}
=============================================================================
