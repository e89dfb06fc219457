----------------------- MODULE MCDispatchOverSink ---------------------------
EXTENDS DispatchOverSink

CONSTANTS d2, publish, v2

MCContents == EffectNames \X Payloads
MCForeign == {<<d2, <<publish, v2>>>>}
=============================================================================
