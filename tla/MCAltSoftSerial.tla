-------------------------- MODULE MCAltSoftSerial --------------------------
(* Instance of AltSoftSerial for TLC. *)
EXTENDS AltSoftSerial

MCBytes == {<<1, 1>>, <<1, 0>>}

(* The counter is only added to and subtracted from, modulo Wrap, so states*)
(* that differ by a turn of the counter behave alike: TLC keeps one of them*)
(* and sees every stored time as its distance from the counter.            *)
Ago(t) == (timer.count - t) % Wrap

MCView ==
    <<line, tx, main, answer, flying,
      [timer EXCEPT !.count = 0,
                    !.ocrA = IF timer.onA THEN Ago(@) ELSE 0,
                    !.ocrB = IF timer.onB THEN Ago(@) ELSE 0,
                    !.icr  = IF timer.flagC THEN Ago(@) ELSE 0],
      [rx EXCEPT !.target = IF rx.state # 0 THEN Ago(@) ELSE 0]>>
=============================================================================
