---------------------------- MODULE MCObservedCall ----------------------------
(* Calls between "a" at host A and the legs "b" and "c" at host B.          *)
EXTENDS ObservedCall

Sip(status, cseq, method, branch, from, to, dir, sdp) ==
    [kind |-> "sip", whole |-> TRUE, status |-> status, cseq |-> cseq, method |-> method,
     branch |-> branch, from |-> from, to |-> to, dir |-> dir, sdp |-> sdp]
Req(cseq, method, branch, to, sdp) == Sip(0, cseq, method, branch, "a", to, "out", sdp)
Rsp(status, cseq, method, branch, to, sdp) == Sip(status, cseq, method, branch, "a", to, "in", sdp)
Sdp(host, port, way) == [host |-> host, port |-> port, way |-> way, pts |-> {0}]
Offer == Sdp("A", 1, "sendrecv")
Answer == Sdp("B", 1, "sendrecv")
Media(src, dst, n, ssrc, pt) ==
    [kind |-> "rtp", src |-> <<src, 1>>, dst |-> <<dst, 1>>, n |-> n, seq |-> n % Modulus,
     ssrc |-> ssrc, pt |-> pt, open |-> TRUE]
Ab(n) == Media("A", "B", n, 1, 0)
Ba(n) == Media("B", "A", n, 2, 0)

Setup == << Req(1, "INVITE", "1", NoTag, Offer), Rsp(200, 1, "INVITE", "1", "b", Answer),
            Req(1, "ACK", "1a", "b", NoSdp) >>
Talk == << Ab(Modulus - 2), Ba(3), Ab(Modulus - 1), Ab(Modulus), Ba(4) >>
Bye == << Req(2, "BYE", "2", "b", NoSdp), Rsp(200, 2, "BYE", "2", "b", NoSdp) >>
CalleeBye == << Sip(0, 7, "BYE", "7", "b", "a", "in", NoSdp), Sip(200, 7, "BYE", "7", "b", "a", "out", NoSdp) >>
Reinvite(cseq, branch, offer, answer) ==
    << Req(cseq, "INVITE", branch, "b", offer), Rsp(200, cseq, "INVITE", branch, "b", answer),
       Req(cseq, "ACK", branch \o "a", "b", NoSdp) >>
CalleeReinvite(offer, answer) ==
    << Sip(0, 5, "INVITE", "5", "b", "a", "in", offer), Sip(200, 5, "INVITE", "5", "b", "a", "out", answer),
       Sip(0, 5, "ACK", "5a", "b", "a", "in", NoSdp) >>
Challenged == << Req(1, "INVITE", "1", NoTag, Offer), Rsp(401, 1, "INVITE", "1", "x", NoSdp),
                 Req(1, "ACK", "1", "x", NoSdp), Req(2, "INVITE", "2", NoTag, Offer),
                 Rsp(200, 2, "INVITE", "2", "b", Answer), Req(2, "ACK", "2a", "b", NoSdp) >>
Retried == << Req(1, "INVITE", "1", NoTag, Offer), Rsp(503, 1, "INVITE", "1", "c", NoSdp),
              Req(1, "ACK", "1", "c", NoSdp), Req(2, "INVITE", "2", NoTag, Offer),
              Rsp(200, 2, "INVITE", "2", "b", Answer), Req(2, "ACK", "2a", "b", NoSdp) >>
Cancelled == << Req(1, "INVITE", "1", NoTag, Offer), Rsp(180, 1, "INVITE", "1", "b", NoSdp),
                Req(1, "CANCEL", "1", NoTag, NoSdp), Rsp(200, 1, "CANCEL", "1", "b", NoSdp),
                Rsp(487, 1, "INVITE", "1", "b", NoSdp), Req(1, "ACK", "1", "b", NoSdp) >>
Forked == << Req(1, "INVITE", "1", NoTag, Offer), Rsp(183, 1, "INVITE", "1", "c", Sdp("B", 2, "sendrecv")),
             Rsp(200, 1, "INVITE", "1", "b", Answer), Req(1, "ACK", "1a", "b", NoSdp),
             Rsp(200, 1, "INVITE", "1", "c", Sdp("B", 2, "sendrecv")), Ab(3) >>

Call(frames, media, offers) == [frames |-> frames, media |-> media, offers |-> offers]
Plain == {
    Call(Setup \o Talk \o Bye, "good", "caller"),
    Call(Setup \o Talk \o CalleeBye, "good", "caller"),
    Call(Setup \o <<Ab(3), Ba(3)>> \o Bye \o <<Ba(4)>>, "bad", "caller"),
    Call(Setup \o <<Ab(3), Ba(3), Ab(5)>> \o Bye, "bad", "caller"),
    Call(Setup \o <<Ba(3), Media("A", "B", 3, 1, 9)>> \o Bye, "bad", "caller"),
    Call(Setup \o <<Ba(3), Ab(3), Media("A", "B", 4, 9, 0)>> \o Bye, "bad", "caller"),
    Call(Setup \o <<Ba(3), Ab(3), Media("X", "B", 4, 9, 0)>> \o Bye, "bad", "caller"),
    Call(<<Req(1, "INVITE", "1", NoTag, Offer), Ba(2)>> \o Tail(Setup) \o <<Ab(3)>> \o Bye, "bad", "caller"),
    Call(Challenged \o <<Ab(3), Ba(3)>>, "good", "caller"),
    Call(Retried, "unjudged", "caller"),
    Call(Cancelled, "unjudged", "caller"),
    Call(Forked \o Bye, "unjudged", "caller") }
Held == {
    Call(Setup \o <<Ba(3), Ab(3)>> \o Reinvite(2, "3", Sdp("A", 1, "sendonly"), Sdp("B", 1, "recvonly"))
           \o <<Ab(4)>>, "good", "caller"),
    Call(Setup \o <<Ba(3), Ab(3)>> \o Reinvite(2, "3", Sdp("A", 1, "sendonly"), Sdp("B", 1, "recvonly"))
           \o <<Ba(4)>>, "bad", "caller"),
    Call(Setup \o <<Ba(3), Ab(3)>> \o CalleeReinvite(Sdp("B", 1, "sendonly"), Sdp("A", 1, "recvonly"))
           \o <<Ba(4)>>, "good", "callee") }
MCScripts == Plain \cup Held
=============================================================================
