---------------------------- MODULE MCDeviceJob ----------------------------
(* Requests for DeviceJob that between them take every path. *)
EXTENDS DeviceJob, TLC

CONSTANTS f1, f2, p1, p2

TwoVersions == {<<1, 2>>, <<3, 2>>}

NetmikoRequests ==
  {[NoRequest EXCEPT !.drv = "netmiko", !.lines = 2, !.enable = TRUE],
   [NoRequest EXCEPT !.drv = "netmiko", !.op = "config", !.lines = 2, !.save = TRUE,
                     !.enable = TRUE],
   [NoRequest EXCEPT !.drv = "netmiko", !.op = "config", !.lines = 2],
   [NoRequest EXCEPT !.drv = "netmiko", !.op = "upload", !.files = <<f1>>, !.enable = TRUE]}

ConfigRequests ==
  {[NoRequest EXCEPT !.op = "config", !.lines = 2, !.args = a] : a \in {"none", "stop", "go"}}

CommandRequests ==
  {[NoRequest EXCEPT !.lines = 2],
   [NoRequest EXCEPT !.op = "script", !.lines = 1]}
  \cup {[NoRequest EXCEPT !.op = "interactive", !.lines = 1, !.expects = {p1}, !.asks = a] :
          a \in {<<p1>>, <<p1, p1>>, <<p2>>}}

TransferRequests ==
  {[NoRequest EXCEPT !.op = d, !.files = <<f1, f2>>, !.resume = r, !.hash = h] :
     d \in {"upload", "download"}, r \in BOOLEAN, h \in BOOLEAN}
  \cup {[NoRequest EXCEPT !.op = "upload", !.files = <<f1>>, !.resume = TRUE,
                          !.exec = TRUE, !.cleanup = c, !.dirpath = p] :
          c \in BOOLEAN, p \in BOOLEAN}

AllRequests == NetmikoRequests \cup ConfigRequests \cup CommandRequests \cup TransferRequests
=============================================================================
