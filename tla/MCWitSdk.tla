------------------------------- MODULE MCWitSdk -------------------------------
(***************************************************************************)
(* Instances of WitSdk: real frames and registers, a small buffer.         *)
(***************************************************************************)
EXTENDS WitSdk

\* Inside the array, at its end, too many for one answer, behind the end.
MCReads == {<<52, 3>>, <<REGSIZE - 2, 1>>, <<61, 5>>, <<REGSIZE, 1>>}

MCSettings == {<<"StartAccCali", 1>>, <<"SetUartBaud", 6>>, <<"SetUartBaud", 8>>,
               <<"SetCanBaud", 0>>, <<"SetBandwidth", 6>>, <<"SaveParameter", 0>>}

\* 905x_MODBUS is another name of MODBUS in every switch of the driver.
MCProtocols == (AllProtocols \ {"905x_MODBUS"}) \cup {"unknown"}

MCI2cResults == {-1, 0, 1}
=============================================================================
