------------------------------ MODULE PinTable ------------------------------
(***************************************************************************)
(* The two tables of cvi_pinmux: cv181x_pin of cvi_pinmux.c and            *)
(* cv181x_pin_func of func.h, which list the same pins in the same order,  *)
(* but for PTEST.  A pin is written once, with the function of each value  *)
(* of its register.                                                        *)
(***************************************************************************)
EXTENDS Integers, Sequences, SequencesExt

Pin(stem, digits, functions) ==
  [name |-> [stem |-> stem, digits |-> digits], functions |-> functions]

(* The function of a value that has none.                                  *)
No == ""

SensorPins == <<
  Pin("CAM_MCLK", <<0>>, <<"CAM_MCLK0", No, "AUX1", "XGPIOA_0">>),
  Pin("CAM_PD", <<0>>, <<No, "IIS1_MCLK", No, "XGPIOA_1", "CAM_HS0">>),
  Pin("CAM_RST", <<0>>, <<No, No, No, "XGPIOA_2", "CAM_VS0", No,
    "IIC4_SCL">>),
  Pin("CAM_MCLK", <<1>>, <<"CAM_MCLK1", No, "AUX2", "XGPIOA_3", "CAM_HS0">>),
  Pin("CAM_PD", <<1>>, <<No, "IIS1_MCLK", No, "XGPIOA_4", "CAM_VS0", No,
    "IIC4_SDA">>),
  Pin("IIC3_SCL", <<>>, <<"IIC3_SCL", No, No, "XGPIOA_5">>),
  Pin("IIC3_SDA", <<>>, <<"IIC3_SDA", No, No, "XGPIOA_6">>)>>

Sd0Pins == <<
  Pin("SD0_CLK", <<>>, <<"SDIO0_CLK", "IIC1_SDA", "SPI0_SCK", "XGPIOA_7",
    No, "PWM_15", "EPHY_LNK_LED", "DBG_0">>),
  Pin("SD0_CMD", <<>>, <<"SDIO0_CMD", "IIC1_SCL", "SPI0_SDO", "XGPIOA_8",
    No, "PWM_14", "EPHY_SPD_LED", "DBG_1">>),
  Pin("SD0_D", <<0>>, <<"SDIO0_D_0", "CAM_MCLK1", "SPI0_SDI", "XGPIOA_9",
    "UART3_TX", "PWM_13", "WG0_D0", "DBG_2">>),
  Pin("SD0_D", <<1>>, <<"SDIO0_D_1", "IIC1_SDA", "AUX0", "XGPIOA_10",
    "UART1_TX", "PWM_12", "WG0_D1", "DBG_3">>),
  Pin("SD0_D", <<2>>, <<"SDIO0_D_2", "IIC1_SCL", "AUX1", "XGPIOA_11",
    "UART1_RX", "PWM_11", "WG1_D0", "DBG_4">>),
  Pin("SD0_D", <<3>>, <<"SDIO0_D_3", "CAM_MCLK0", "SPI0_CS_X",
    "XGPIOA_12", "UART3_RX", "PWM_10", "WG1_D1", "DBG_5">>),
  Pin("SD0_CD", <<>>, <<"SDIO0_CD", No, No, "XGPIOA_13">>),
  Pin("SD0_PWR_EN", <<>>, <<"SDIO0_PWR_EN", No, No, "XGPIOA_14">>),
  Pin("SPK_EN", <<>>, <<No, No, No, "XGPIOA_15">>),
  Pin("UART0_TX", <<>>, <<"UART0_TX", "CAM_MCLK1", "PWM_4", "XGPIOA_16",
    "UART1_TX", "AUX1", No, "DBG_6">>),
  Pin("UART0_RX", <<>>, <<"UART0_RX", "CAM_MCLK0", "PWM_5", "XGPIOA_17",
    "UART1_RX", "AUX0", No, "DBG_7">>)>>

EmmcPins == <<
  Pin("EMMC_RSTN", <<>>, <<"EMMC_RSTN", No, No, "XGPIOA_21", "AUX2">>),
  Pin("EMMC_DAT", <<2>>, <<"EMMC_DAT_2", "SPINOR_HOLD_X", "SPINAND_HOLD",
    "XGPIOA_26">>),
  Pin("EMMC_CLK", <<>>, <<"EMMC_CLK", "SPINOR_SCK", "SPINAND_CLK",
    "XGPIOA_22">>),
  Pin("EMMC_DAT", <<0>>, <<"EMMC_DAT_0", "SPINOR_MOSI", "SPINAND_MOSI",
    "XGPIOA_25">>),
  Pin("EMMC_DAT", <<3>>, <<"EMMC_DAT_3", "SPINOR_WP_X", "SPINAND_WP",
    "XGPIOA_27">>),
  Pin("EMMC_CMD", <<>>, <<"EMMC_CMD", "SPINOR_MISO", "SPINAND_MISO",
    "XGPIOA_23">>),
  Pin("EMMC_DAT", <<1>>, <<"EMMC_DAT_1", "SPINOR_CS_X", "SPINAND_CS",
    "XGPIOA_24">>),
  Pin("JTAG_CPU_TMS", <<>>, <<"CV_2WTMS_CR_4WTMS", "CAM_MCLK0", "PWM_7",
    "XGPIOA_19", "UART1_RTS", "AUX0", "UART1_TX", "VO_D_28">>),
  Pin("JTAG_CPU_TCK", <<>>, <<"CV_2WTCK_CR_4WTCK", "CAM_MCLK1", "PWM_6",
    "XGPIOA_18", "UART1_CTS", "AUX1", "UART1_RX", "VO_D_29">>),
  Pin("JTAG_CPU_TRST", <<>>, <<"JTAG_CPU_TRST", No, No, "XGPIOA_20", No,
    No, "VO_D_30">>),
  Pin("IIC0_SCL", <<>>, <<"CV_SCL0", "UART1_TX", "UART2_TX", "XGPIOA_28",
    No, "WG0_D0", No, "DBG_10">>),
  Pin("IIC0_SDA", <<>>, <<"CV_SDA0", "UART1_RX", "UART2_RX", "XGPIOA_29",
    No, "WG0_D1", "WG1_D0", "DBG_11">>),
  Pin("AUX", <<0>>, <<"AUX0", No, No, "XGPIOA_30", "IIS1_MCLK", "VO_D_31",
    "WG1_D1", "DBG_12">>)>>

PowerPins == <<
  Pin("PWR_VBAT_DET", <<>>, <<"PWR_VBAT_DET">>),
  Pin("PWR_RSTN", <<>>, <<"PWR_RSTN">>),
  Pin("PWR_SEQ", <<1>>, <<"PWR_SEQ1", No, No, "PWR_GPIO_3">>),
  Pin("PWR_SEQ", <<2>>, <<"PWR_SEQ2", No, No, "PWR_GPIO_4">>),
  Pin("PWR_SEQ", <<3>>, <<"PWR_SEQ3", No, No, "PWR_GPIO_5">>),
  Pin("PTEST", <<>>, <<"PWR_PTEST">>),
  Pin("PWR_WAKEUP", <<0>>, <<"PWR_WAKEUP0", "PWR_IR0", "PWR_UART0_TX",
    "PWR_GPIO_6", "UART1_TX", "IIC4_SCL", "EPHY_LNK_LED", "WG2_D0">>),
  Pin("PWR_WAKEUP", <<1>>, <<"PWR_WAKEUP1", "PWR_IR1", No, "PWR_GPIO_7",
    "UART1_TX", "IIC4_SCL", "EPHY_LNK_LED", "WG0_D0">>),
  Pin("PWR_BUTTON", <<1>>, <<"PWR_BUTTON1", No, No, "PWR_GPIO_8",
    "UART1_RX", "IIC4_SDA", "EPHY_SPD_LED", "WG2_D1">>),
  Pin("PWR_ON", <<>>, <<"PWR_ON", No, No, "PWR_GPIO_9", "UART1_RX",
    "IIC4_SDA", "EPHY_SPD_LED", "WG0_D1">>),
  Pin("XTAL_XIN", <<>>, <<"PWR_XTAL_CLKIN">>),
  Pin("PWR_GPIO", <<0>>, <<"PWR_GPIO_0", "UART2_TX", "PWR_UART0_RX", No,
    "PWM_8">>),
  Pin("PWR_GPIO", <<1>>, <<"PWR_GPIO_1", "UART2_RX", No, "EPHY_LNK_LED",
    "PWM_9", "PWR_IIC_SCL", "IIC2_SCL", "CV_4WTMS_CR_SDA0">>),
  Pin("PWR_GPIO", <<2>>, <<"PWR_GPIO_2", No, "PWR_SECTICK",
    "EPHY_SPD_LED", "PWM_10", "PWR_IIC_SDA", "IIC2_SDA",
    "CV_4WTCK_CR_2WTCK">>),
  Pin("CLK32K", <<>>, <<"CLK32K", "AUX0", "CV_4WTDI_CR_SCL0",
    "PWR_GPIO_10", "PWM_2", "KEY_COL0", "CAM_MCLK0", "DBG_0">>),
  Pin("CLK25M", <<>>, <<"CLK25M", "AUX1", "CV_4WTDO_CR_2WTMS",
    "PWR_GPIO_11", "PWM_3", "KEY_COL1", "CAM_MCLK1", "DBG_1">>)>>

Sd1Pins == <<
  Pin("IIC2_SCL", <<>>, <<"IIC2_SCL", "PWM_14", No, "PWR_GPIO_12",
    "UART2_RX", No, No, "KEY_COL2">>),
  Pin("IIC2_SDA", <<>>, <<"IIC2_SDA", "PWM_15", No, "PWR_GPIO_13",
    "UART2_TX", "IIS1_MCLK", "IIS2_MCLK", "KEY_COL3">>),
  Pin("UART2_TX", <<>>, <<"UART2_TX", "PWM_11", "PWR_UART1_TX",
    "PWR_GPIO_14", "KEY_ROW3", "UART4_TX", "IIS2_BCLK", "WG2_D0">>),
  Pin("UART2_RTS", <<>>, <<"UART2_RTS", "PWM_8", No, "PWR_GPIO_15",
    "KEY_ROW0", "UART4_RTS", "IIS2_DO", "WG1_D0">>),
  Pin("UART2_RX", <<>>, <<"UART2_RX", "PWM_10", "PWR_UART1_RX",
    "PWR_GPIO_16", "KEY_COL3", "UART4_RX", "IIS2_DI", "WG2_D1">>),
  Pin("UART2_CTS", <<>>, <<"UART2_CTS", "PWM_9", No, "PWR_GPIO_17",
    "KEY_ROW1", "UART4_CTS", "IIS2_LRCK", "WG1_D1">>),
  Pin("SD1_D", <<3>>, <<"PWR_SD1_D3_VO32", "SPI2_CS_X", "IIC1_SCL",
    "PWR_GPIO_18", "CAM_MCLK0", "UART3_CTS", "PWR_SPINOR1_CS_X", "PWM_4">>),
  Pin("SD1_D", <<2>>, <<"PWR_SD1_D2_VO33", "IIC1_SCL", "UART2_TX",
    "PWR_GPIO_19", "CAM_MCLK0", "UART3_TX", "PWR_SPINOR1_HOLD_X", "PWM_5">>),
  Pin("SD1_D", <<1>>, <<"PWR_SD1_D1_VO34", "IIC1_SDA", "UART2_RX",
    "PWR_GPIO_20", "CAM_MCLK1", "UART3_RX", "PWR_SPINOR1_WP_X", "PWM_6">>),
  Pin("SD1_D", <<0>>, <<"PWR_SD1_D0_VO35", "SPI2_SDI", "IIC1_SDA",
    "PWR_GPIO_21", "CAM_MCLK1", "UART3_RTS", "PWR_SPINOR1_MISO", "PWM_7">>),
  Pin("SD1_CMD", <<>>, <<"PWR_SD1_CMD_VO36", "SPI2_SDO", "IIC3_SCL",
    "PWR_GPIO_22", "CAM_VS0", "EPHY_LNK_LED", "PWR_SPINOR1_MOSI", "PWM_8">>),
  Pin("SD1_CLK", <<>>, <<"PWR_SD1_CLK_VO37", "SPI2_SCK", "IIC3_SDA",
    "PWR_GPIO_23", "CAM_HS0", "EPHY_SPD_LED", "PWR_SPINOR1_SCK", "PWM_9">>)>>

PackagePins == <<
  Pin("RSTN", <<>>, <<"RSTN">>),
  Pin("PWM0_BUCK", <<>>, <<"PWM_0", No, No, "XGPIOB_0">>),
  Pin("ADC", <<3>>, <<No, "CAM_MCLK0", "IIC4_SCL", "XGPIOB_1", "PWM_12",
    "EPHY_LNK_LED", "WG2_D0", "UART3_TX">>),
  Pin("ADC", <<2>>, <<No, "CAM_MCLK1", "IIC4_SDA", "XGPIOB_2", "PWM_13",
    "EPHY_SPD_LED", "WG2_D1", "UART3_RX">>),
  Pin("ADC", <<1>>, <<No, No, No, "XGPIOB_3", "KEY_COL2">>),
  Pin("USB_ID", <<>>, <<"USB_ID", No, No, "XGPIOB_4">>),
  Pin("USB_VBUS_EN", <<>>, <<"USB_VBUS_EN", No, No, "XGPIOB_5">>),
  Pin("PKG_TYPE", <<0>>, <<"PKG_TYPE0">>),
  Pin("USB_VBUS_DET", <<>>, <<"USB_VBUS_DET", No, No, "XGPIOB_6",
    "CAM_MCLK0", "CAM_MCLK1">>),
  Pin("PKG_TYPE", <<1>>, <<"PKG_TYPE1">>),
  Pin("PKG_TYPE", <<2>>, <<"PKG_TYPE2">>),
  Pin("MUX_SPI1_MISO", <<>>, <<No, "UART3_RTS", "IIC1_SDA", "XGPIOB_8",
    "PWM_9", "KEY_COL1", "SPI1_SDI", "DBG_14">>),
  Pin("MUX_SPI1_MOSI", <<>>, <<No, "UART3_RX", "IIC1_SCL", "XGPIOB_7",
    "PWM_8", "KEY_COL0", "SPI1_SDO", "DBG_13">>),
  Pin("MUX_SPI1_CS", <<>>, <<No, "UART3_CTS", "CAM_MCLK0", "XGPIOB_10",
    "PWM_11", "KEY_ROW3", "SPI1_CS_X", "DBG_16">>),
  Pin("MUX_SPI1_SCK", <<>>, <<No, "UART3_TX", "CAM_MCLK1", "XGPIOB_9",
    "PWM_10", "KEY_ROW2", "SPI1_SCK", "DBG_15">>),
  Pin("PAD_ETH_TXP", <<>>, <<No, "UART3_RX", "IIC1_SCL", "XGPIOB_25",
    "PWM_13", "CAM_MCLK0", "SPI1_SDO", "IIS2_LRCK">>),
  Pin("PAD_ETH_TXM", <<>>, <<No, "UART3_RTS", "IIC1_SDA", "XGPIOB_24",
    "PWM_12", "CAM_MCLK1", "SPI1_SDI", "IIS2_BCLK">>),
  Pin("PAD_ETH_RXP", <<>>, <<No, "UART3_TX", "CAM_MCLK1", "XGPIOB_27",
    "PWM_15", "CAM_HS0", "SPI1_SCK", "IIS2_DO">>),
  Pin("PAD_ETH_RXM", <<>>, <<No, "UART3_CTS", "CAM_MCLK0", "XGPIOB_26",
    "PWM_14", "CAM_VS0", "SPI1_CS_X", "IIS2_DI">>)>>

VideoPins == <<
  Pin("VIVO_D", <<1, 0>>, <<"PWM_1", "VI1_D_10", "VO_D_23", "XGPIOB_11",
    "RMII0_IRQ", "CAM_MCLK0", "IIC1_SDA", "UART2_TX">>),
  Pin("VIVO_D", <<9>>, <<"PWM_2", "VI1_D_9", "VO_D_22", "XGPIOB_12", No,
    "CAM_MCLK1", "IIC1_SCL", "UART2_RX">>),
  Pin("VIVO_D", <<8>>, <<"PWM_3", "VI1_D_8", "VO_D_21", "XGPIOB_13",
    "RMII0_MDIO", "SPI3_SDO", "IIC2_SCL", "CAM_VS0">>),
  Pin("VIVO_D", <<7>>, <<"VI2_D_7", "VI1_D_7", "VO_D_20", "XGPIOB_14",
    "RMII0_RXD1", "SPI3_SDI", "IIC2_SDA", "CAM_HS0">>),
  Pin("VIVO_D", <<6>>, <<"VI2_D_6", "VI1_D_6", "VO_D_19", "XGPIOB_15",
    "RMII0_REFCLKI", "SPI3_SCK", "UART2_TX", "CAM_VS0">>),
  Pin("VIVO_D", <<5>>, <<"VI2_D_5", "VI1_D_5", "VO_D_18", "XGPIOB_16",
    "RMII0_RXD0", "SPI3_CS_X", "UART2_RX", "CAM_HS0">>),
  Pin("VIVO_D", <<4>>, <<"VI2_D_4", "VI1_D_4", "VO_D_17", "XGPIOB_17",
    "RMII0_MDC", "IIC1_SDA", "UART2_CTS", "CAM_VS0">>),
  Pin("VIVO_D", <<3>>, <<"VI2_D_3", "VI1_D_3", "VO_D_16", "XGPIOB_18",
    "RMII0_TXD0", "IIC1_SCL", "UART2_RTS", "CAM_HS0">>),
  Pin("VIVO_D", <<2>>, <<"VI2_D_2", "VI1_D_2", "VO_D_15", "XGPIOB_19",
    "RMII0_TXD1", "CAM_MCLK1", "PWM_2", "UART2_TX">>),
  Pin("VIVO_D", <<1>>, <<"VI2_D_1", "VI1_D_1", "VO_D_14", "XGPIOB_20",
    "RMII0_RXDV", "IIC3_SDA", "PWM_3", "IIC4_SCL">>),
  Pin("VIVO_D", <<0>>, <<"VI2_D_0", "VI1_D_0", "VO_D_13", "XGPIOB_21",
    "RMII0_TXCLK", "IIC3_SCL", "WG1_D0", "IIC4_SDA">>),
  Pin("VIVO_CLK", <<>>, <<"VI2_CLK", "VI1_CLK", "VO_CLK1", "XGPIOB_22",
    "RMII0_TXEN", "CAM_MCLK0", "WG1_D1", "UART2_RX">>)>>

MipiRxPins == <<
  Pin("PAD_MIPIRX5N", <<>>, <<No, "VI1_D_11", "VO_D_12", "XGPIOC_0", No,
    "CAM_MCLK0", "WG0_D0", "DBG_0">>),
  Pin("PAD_MIPIRX5P", <<>>, <<No, "VI1_D_12", "VO_D_11", "XGPIOC_1",
    "IIS1_MCLK", "CAM_MCLK1", "WG0_D1", "DBG_1">>),
  Pin("PAD_MIPIRX4N", <<>>, <<"CV_4WTDI_CR_SCL0", "VI0_CLK", "VI1_D_13",
    "XGPIOC_2", "IIC1_SDA", "CAM_MCLK0", "KEY_ROW0", "MUX_SPI1_SCK">>),
  Pin("PAD_MIPIRX4P", <<>>, <<"CV_4WTMS_CR_SDA0", "VI0_D_0", "VI1_D_14",
    "XGPIOC_3", "IIC1_SCL", "CAM_MCLK1", "KEY_ROW1", "MUX_SPI1_CS">>),
  Pin("PAD_MIPIRX3N", <<>>, <<"CV_4WTDO_CR_2WTMS", "VI0_D_1", "VI1_D_15",
    "XGPIOC_4", "CAM_MCLK0", No, No, "MUX_SPI1_MISO">>),
  Pin("PAD_MIPIRX3P", <<>>, <<"CV_4WTCK_CR_2WTCK", "VI0_D_2", "VI1_D_16",
    "XGPIOC_5", No, No, No, "MUX_SPI1_MOSI">>),
  Pin("PAD_MIPIRX2N", <<>>, <<No, "VI0_D_3", "VO_D_10", "XGPIOC_6",
    "VI1_D_17", "IIC4_SCL", No, "DBG_6">>),
  Pin("PAD_MIPIRX2P", <<>>, <<No, "VI0_D_4", "VO_D_9", "XGPIOC_7",
    "VI1_D_18", "IIC4_SDA", No, "DBG_7">>),
  Pin("PAD_MIPIRX1N", <<>>, <<No, "VI0_D_5", "VO_D_8", "XGPIOC_8", No, No,
    "KEY_ROW3", "DBG_8">>),
  Pin("PAD_MIPIRX1P", <<>>, <<No, "VI0_D_6", "VO_D_7", "XGPIOC_9",
    "IIC1_SDA", No, "KEY_ROW2", "DBG_9">>),
  Pin("PAD_MIPIRX0N", <<>>, <<No, "VI0_D_7", "VO_D_6", "XGPIOC_10",
    "IIC1_SCL", "CAM_MCLK1", No, "DBG_10">>),
  Pin("PAD_MIPIRX0P", <<>>, <<No, "VI0_D_8", "VO_D_5", "XGPIOC_11",
    "CAM_MCLK0", No, No, "DBG_11">>)>>

MipiTxPins == <<
  Pin("PAD_MIPI_TXM", <<4>>, <<"VI0_D_15", "SD1_CLK", "VO_D_24",
    "XGPIOC_18", "CAM_MCLK1", "PWM_12", "IIC1_SDA", "DBG_18">>),
  Pin("PAD_MIPI_TXP", <<4>>, <<"VI0_D_16", "SD1_CMD", "VO_D_25",
    "XGPIOC_19", "CAM_MCLK0", "PWM_13", "IIC1_SCL", "DBG_19">>),
  Pin("PAD_MIPI_TXM", <<3>>, <<"VI0_D_17", "SD1_D0", "VO_D_26",
    "XGPIOC_20", "IIC2_SDA", "PWM_14", "IIC1_SDA", "CAM_VS0">>),
  Pin("PAD_MIPI_TXP", <<3>>, <<"VI0_D_18", "SD1_D1", "VO_D_27",
    "XGPIOC_21", "IIC2_SCL", "PWM_15", "IIC1_SCL", "CAM_HS0">>),
  Pin("PAD_MIPI_TXM", <<2>>, <<"CV_4WTMS_CR_SDA0", "VI0_D_13", "VO_D_0",
    "XGPIOC_16", "IIC1_SDA", "PWM_8", "SPI0_SCK", "SD1_D2">>),
  Pin("PAD_MIPI_TXP", <<2>>, <<"CV_4WTDI_CR_SCL0", "VI0_D_14", "VO_CLK0",
    "XGPIOC_17", "IIC1_SCL", "PWM_9", "SPI0_CS_X", "SD1_D3">>),
  Pin("PAD_MIPI_TXM", <<1>>, <<"CV_4WTDO_CR_2WTMS", "VI0_D_11", "VO_D_2",
    "XGPIOC_14", "IIC2_SDA", "PWM_10", "SPI0_SDO", "DBG_14">>),
  Pin("PAD_MIPI_TXP", <<1>>, <<"CV_4WTCK_CR_2WTCK", "VI0_D_12", "VO_D_1",
    "XGPIOC_15", "IIC2_SCL", "PWM_11", "SPI0_SDI", "DBG_15">>),
  Pin("PAD_MIPI_TXM", <<0>>, <<No, "VI0_D_9", "VO_D_4", "XGPIOC_12",
    "CAM_MCLK1", "PWM_14", "CAM_VS0", "DBG_12">>),
  Pin("PAD_MIPI_TXP", <<0>>, <<No, "VI0_D_10", "VO_D_3", "XGPIOC_13",
    "CAM_MCLK0", "PWM_15", "CAM_HS0", "DBG_13">>)>>

AudioPins == <<
  Pin("PAD_AUD_AINL_MIC", <<>>, <<No, No, No, "XGPIOC_23", "IIS1_BCLK",
    "IIS2_BCLK">>),
  Pin("PAD_AUD_AINR_MIC", <<>>, <<No, No, No, "XGPIOC_22", "IIS1_DO",
    "IIS2_DI", "IIS1_DI">>),
  Pin("PAD_AUD_AOUTL", <<>>, <<No, No, No, "XGPIOC_25", "IIS1_LRCK",
    "IIS2_LRCK">>),
  Pin("PAD_AUD_AOUTR", <<>>, <<No, No, No, "XGPIOC_24", "IIS1_DI",
    "IIS2_DO", "IIS1_DO">>),
  Pin("GPIO_RTX", <<>>, <<No, No, No, "XGPIOB_23", "PWM_1", "CAM_MCLK0">>),
  Pin("GPIO_ZQ", <<>>, <<No, No, No, "PWR_GPIO_24", "PWM_2">>),
  Pin("UART0_IP_SEL", <<>>, <<>>),
  Pin("UART1_IP_SEL", <<>>, <<>>),
  Pin("UART2_IP_SEL", <<>>, <<>>),
  Pin("UART3_IP_SEL", <<>>, <<>>),
  Pin("UART4_IP_SEL", <<>>, <<>>)>>

Described ==
  SensorPins \o Sd0Pins \o EmmcPins \o PowerPins \o Sd1Pins \o PackagePins
    \o VideoPins \o MipiRxPins \o MipiTxPins \o AudioPins

(* PTEST has a row, but is not among the pins.                             *)
CvPins ==
  {Described[i].name : i \in DOMAIN Described}
    \ {[stem |-> "PTEST", digits |-> <<>>]}

RowsOf(d) ==
  LET row == [v \in 1 .. Len(d.functions) |->
                [name |-> [d.name EXCEPT !.digits = Append(@, v - 1)],
                 func |-> d.functions[v]]]
  IN SelectSeq(row, LAMBDA r : r.func # No)

CvPinFunc == FlattenSeq([i \in DOMAIN Described |-> RowsOf(Described[i])])

(* What cvi_board_init of U-Boot sets up: BT and Wi-Fi, the camera, LEDs.  *)
CviBoardInit ==
  LET Set(stem, digits, func) == [name |-> [stem |-> stem, digits |-> digits],
                                  func |-> func]
  IN {Set("AUX", <<0>>, "XGPIOA_30"),
      Set("JTAG_CPU_TMS", <<>>, "UART1_RTS"),
      Set("JTAG_CPU_TCK", <<>>, "UART1_CTS"),
      Set("IIC0_SDA", <<>>, "UART1_RX"), Set("IIC0_SCL", <<>>, "UART1_TX"),
      Set("PWR_WAKEUP", <<0>>, "PWR_GPIO_6"),
      Set("PWR_GPIO", <<1>>, "IIC2_SCL"), Set("PWR_GPIO", <<2>>, "IIC2_SDA"),
      Set("SPK_EN", <<>>, "XGPIOA_15"), Set("GPIO_ZQ", <<>>, "PWR_GPIO_24"),
      Set("PWR_GPIO", <<0>>, "PWR_GPIO_0")}
=============================================================================
